---- MODULE Spec2Model ----
(***************************************************************************)
(* A model of the agent tool-orchestration loop of ncecere/ai-sdk          *)
(* (package agent: Run / RunWithEvents), together with the helpers it      *)
(* calls in package ai (GenerateTextWithRegistry, GenerateText, the error  *)
(* types) and the JSON encoding of a tool result.                          *)
(*                                                                         *)
(* One run of RunWithEvents is a sequential process.  Its position is pc:  *)
(*   "start"    before cfg.validate()                                      *)
(*   "loop"     at the head of the for loop                                *)
(*   "tools"    inside `for _, tc := range res.ToolCalls`, before the      *)
(*              tool call number idx                                       *)
(*   "returned" after a return statement                                   *)
(* The language model, the registry and the tools are interfaces supplied  *)
(* by the caller: what they return is chosen nondeterministically from     *)
(* small sets.                                                             *)
(***************************************************************************)
EXTENDS Integers, Sequences, FiniteSets, TLC

(***************************************************************************)
(* Bounds of the model.                                                    *)
(***************************************************************************)
\* largest explicit Config.MaxSteps tried (0 and -1 select the default of 8)
MaxStepsBound == 2
\* most tool calls in one Generate response
MaxBatch == 2
\* number of Generate responses of a run that the model may choose freely;
\* from then on it either repeats its last response ("a model that always
\* returns a tool call") or answers without tool calls
MaxVaried == 1

(***************************************************************************)
(* Program constants.                                                      *)
(***************************************************************************)
\* maxStepsOrDefault: the default of Config.MaxSteps
DefaultMaxSteps == 8

RoleUser == "user"
RoleSystem == "system"
RoleAssistant == "assistant"
RoleTool == "tool"

EventTypeMessage == "message"
EventTypeToolStart == "tool_start"
EventTypeToolResult == "tool_result"
EventTypeError == "error"
EventTypeDone == "done"

(***************************************************************************)
(* Values.                                                                 *)
(***************************************************************************)
\* ai.Message
Message(role, content) == [Role |-> role, Content |-> content]

\* agent.Event; omitted fields have Go's zero value
Event(type, step, role, content, tool) ==
  [Type |-> type, Step |-> step, Role |-> role, Content |-> content, Tool |-> tool]

\* agent.Tool (Parameters and Execute are not part of the value: Execute is
\* the environment, see ExecOutcomes)
Tool(name, description) == [Name |-> name, Description |-> description]

\* ai.ToolDefinition
ToolDefinition(name, description) == [Name |-> name, Description |-> description]

\* ai.ToolCall
ToolCall(id, name, args) == [ID |-> id, Name |-> name, RawArguments |-> args]

\* agent.Result
Result(msgs, text, n) == [Messages |-> msgs, FinalText |-> text, Steps |-> n]

\* Go error values: the dynamic type and the text of Error()
Err(type, msg) == [type |-> type, msg |-> msg]
NilErr == Err("nil", "")

\* context.Canceled, context.DeadlineExceeded
ContextCanceled == Err("*errors.errorString", "context canceled")
ContextDeadlineExceeded ==
  Err("context.deadlineExceededError", "context deadline exceeded")

\* fmt's %q of a plain name
Quote(s) == "\"" \o s \o "\""

\* ai.InvalidArgumentError and its Error()
InvalidArgumentError(parameter, message) ==
  Err("*ai.InvalidArgumentError",
      "ai: invalid argument for parameter " \o parameter \o ": " \o message)

\* ai.UnsupportedFunctionalityError and its Error()
UnsupportedFunctionalityError(feature, message) ==
  Err("*ai.UnsupportedFunctionalityError",
      IF message # ""
        THEN "ai: unsupported functionality (" \o feature \o "): " \o message
        ELSE "ai: unsupported functionality (" \o feature \o ")")

\* registry.NoSuchModelError and its Error()
NoSuchModelError(name, kind) ==
  Err("*registry.NoSuchModelError",
      IF kind = ""
        THEN "registry: no such model " \o Quote(name)
        ELSE "registry: no such " \o kind \o " model " \o Quote(name))

\* ai.ErrMissingModel
ErrMissingModel == Err("*errors.errorString", "ai: missing LanguageModel in request")

(***************************************************************************)
(* Values a tool's Execute may return (type any) and their JSON encoding.  *)
(***************************************************************************)
IntValue(n) == [kind |-> "int", n |-> n]
\* a value encoding/json cannot encode
ChanValue == [kind |-> "chan", n |-> 0]

\* json.Marshal of one value: <<text, error>>
MarshalValue(v) ==
  IF v.kind = "int"
    THEN [data |-> ToString(v.n), err |-> NilErr]
    ELSE [data |-> "", err |-> Err("*json.UnsupportedTypeError",
                                     "json: unsupported type: chan int")]

\* MarshalPayload with a seeded fault: the bare result is encoded, not the payload
MarshalPayload_ResultOnly(toolName, result) == MarshalValue(result)

\* json.Marshal(map[string]any{"tool": toolName, "result": result}):
\* encoding/json writes the keys of a map in sorted order
MarshalPayload(toolName, result) ==
  LET r == MarshalValue(result)
  IN  IF r.err # NilErr
        THEN [data |-> "", err |-> r.err]
        ELSE [data |-> "{" \o Quote("result") \o ":" \o r.data \o ","
                           \o Quote("tool") \o ":" \o Quote(toolName) \o "}",
              err |-> NilErr]

(***************************************************************************)
(* Inputs: configurations, initial messages, and what the environment      *)
(* (registry, language model, tools) may answer.                           *)
(***************************************************************************)
\* Config.Tools: a map from key to Tool.  The keys "should match" Tool.Name
\* but nothing enforces it: the third map registers a tool named "sum"
\* under the key "calc".
NoTools == [k \in {} |-> Tool("", "")]
AddOnly == [k \in {"add"} |-> Tool("add", "adds two numbers")]
AddAndCalc ==
  [k \in {"add", "calc"} |->
     IF k = "add" THEN Tool("add", "adds two numbers") ELSE Tool("sum", "sums a list")]
ToolMaps == {NoTools, AddOnly, AddAndCalc}

ModelNames == {"", "gpt"}

\* every tool map with every explicit MaxSteps up to MaxStepsBound; the
\* values that select the default of 8 steps (0 and a negative one) with the
\* two smaller tool maps
Configs ==
  [RegistryNil : BOOLEAN, ModelName : ModelNames, Tools : ToolMaps,
   MaxSteps : 1 .. MaxStepsBound]
  \cup [RegistryNil : BOOLEAN, ModelName : ModelNames, Tools : {NoTools, AddOnly},
        MaxSteps : {-1, 0}]

InitialMessageLists ==
  { <<Message(RoleUser, "2+3?")>>,
    <<Message(RoleSystem, "be brief"), Message(RoleUser, "2+3?")>> }

\* names the model may put in a tool call
CallNames == {"add", "calc"}
Texts == {"", "hi"}
RawArgs == "{\"a\":2,\"b\":3}"

\* the tool calls of a response that names the tools `names`, in order
ToolCallsOf(names) ==
  [i \in 1 .. Len(names) |-> ToolCall("call_" \o ToString(i), names[i], RawArgs)]

Batches == UNION { [1 .. n -> CallNames] : n \in 0 .. MaxBatch }

\* provider.LanguageModelResponse values the model may return
Responses == { [Text |-> t, ToolCalls |-> ToolCallsOf(b)] : t \in Texts, b \in Batches }

NoResponse == [Text |-> "", ToolCalls |-> << >>]

\* errors a language model's Generate may return
ModelErrors == { Err("*provider.APIError", "upstream status 500") }

\* what Registry.LanguageModel(name) may return: a model, an error, or (a
\* registry that breaks its contract) a nil model without an error
LookupOutcomes == {"found", "notfound", "nilmodel"}

\* what Tool.Execute may return: (result, error)
ToolErrors == { Err("*errors.errorString", "division by zero") }
ExecOutcomes ==
  { [result |-> IntValue(5), err |-> NilErr],
    [result |-> ChanValue, err |-> NilErr] }
  \cup { [result |-> IntValue(0), err |-> e] : e \in ToolErrors }

(***************************************************************************)
(* State.                                                                  *)
(***************************************************************************)
VARIABLES
  cfg,              \* the Config argument
  initialMessages,  \* the initialMessages argument
  emit,             \* TRUE iff the EventEmitter argument is not nil
  pc,               \* position of the run
  messages,         \* local: the history
  steps,            \* local: completed tool batches
  maxSteps,         \* local: effective maximum
  res,              \* local: the response being processed
  idx,              \* local: position in res.ToolCalls (1-based)
  retResult,        \* returned *Result: << >> is nil, <<r>> points to r
  retErr,           \* returned error
  events,           \* the events handed to the emitter, in order
  genLog,           \* history: every GenerateTextWithRegistry call and its outcome
  execLog           \* history: every Tool.Execute call and its outcome

\* the variables of one run of the agent
agentVars ==
  <<cfg, initialMessages, emit, pc, messages, steps, maxSteps, res, idx,
    retResult, retErr, events, genLog, execLog>>

\* history of a second run of the agent on the same arguments (specification
\* SpecTwice): what the run before it did and returned
VARIABLES
  first             \* NoFirst, or the record of the finished first run

\* one call of retryLanguageModel.Generate or retryLanguageModel.Stream
VARIABLES
  opts,             \* the RetryOptions given to RetryLanguageModel
  opt,              \* r.opt: the options after defaultRetryOptions
  method,           \* "Generate" or "Stream"
  ctxErr,           \* ctx.Err(): NilErr while the context is live
  rpc,              \* position of the call
  attempt,          \* local: the loop counter
  backoff,          \* local: the current backoff
  lastErr,          \* local
  stream,           \* local of Stream: << >> is nil, <<s>> a stream
  rwRet,            \* returned response or stream: << >> is nil
  rwErr,            \* returned error
  rwLog,            \* history: the underlying calls and the sleeps, in order
  drainLog          \* history: what the caller's Next calls on the returned stream gave

retryVars ==
  <<opts, opt, method, ctxErr, rpc, attempt, backoff, lastErr, stream, rwRet,
    rwErr, rwLog, drainLog>>

\* one chatStream (OpenAI) or messagesStream (Anthropic) and its caller
VARIABLES
  vendor,           \* "openai" (chatStream) or "anthropic" (messagesStream)
  body,             \* the lines of the response body the scanner has consumed
  bodyEnd,          \* "open", or how the body ended: "eof" or "error"
  done,             \* s.done
  closes,           \* number of body.Close() calls
  streamCtx,        \* ctx.Err() of the context the caller passes to Next
  nextLog,          \* history: every Next call and what it returned
  closeLog          \* history: every Close call and what it did

streamVars == <<vendor, body, bodyEnd, done, closes, streamCtx, nextLog, closeLog>>

\* WriteTextStreamAsSSE: one call, on the stream above and with its context
VARIABLES
  spc,              \* position of the call
  w,                \* the http.ResponseWriter: headers, writes and flushes
  flusher,          \* whether w is an http.Flusher
  sseErr            \* the error returned

sseVars == <<spc, w, flusher, sseErr>>

\* WriteRunAsSSE: one call, around the run of the agent above
VARIABLES
  wpc,              \* position of the call
  resp,               \* its http.ResponseWriter: headers, writes, flushes, and
                    \* whether it is an http.Flusher
  runCtx,           \* ctx.Err() of the context the call was given
  runRet            \* what the call returned: << >> before it returns

runVars == <<wpc, resp, runCtx, runRet>>

\* WrapLanguageModel, and one call of the language model it returned
VARIABLES
  mws,              \* the middlewares argument
  wrapped,          \* local of WrapLanguageModel: the model built so far
  wrapI,            \* local of WrapLanguageModel: the loop index i
  call,             \* the call of Generate or Stream on the returned model
  lmLog             \* history: what the loggers and the base model saw, in order

wrapVars == <<mws, wrapped, wrapI, call, lmLog>>

\* one InMemoryRegistry and the goroutines that use it
VARIABLES
  languageModels,   \* r.languageModels
  embeddingModels,  \* r.embeddingModels
  mu,               \* r.mu: the writer that holds it and the number of readers
  gor,              \* each goroutine: its call and the position in it
  latest            \* history: per kind and name, the model of the most
                    \* recent registration that has completed

regVars == <<languageModels, embeddingModels, mu, gor, latest>>

vars ==
  <<agentVars, first, retryVars, streamVars, sseVars, runVars, wrapVars, regVars>>

\* the values the variables of the components that do not take part in a
\* specification keep throughout
NoFirst == [run |-> FALSE]

AgentIdle ==
  /\ cfg = [RegistryNil |-> TRUE, ModelName |-> "", Tools |-> NoTools, MaxSteps |-> 0]
  /\ initialMessages = << >>
  /\ emit = FALSE
  /\ pc = "idle"
  /\ messages = << >>
  /\ steps = 0
  /\ maxSteps = 0
  /\ res = NoResponse
  /\ idx = 0
  /\ retResult = << >>
  /\ retErr = NilErr
  /\ events = << >>
  /\ genLog = << >>
  /\ execLog = << >>

RetryIdle ==
  /\ opts = [MaxAttempts |-> 0, InitialBackoff |-> 0, MaxBackoff |-> 0, ShouldRetry |-> "nil"]
  /\ opt = opts
  /\ method = "Generate"
  /\ ctxErr = NilErr
  /\ rpc = "idle"
  /\ attempt = 0
  /\ backoff = 0
  /\ lastErr = NilErr
  /\ stream = << >>
  /\ rwRet = << >>
  /\ rwErr = NilErr
  /\ rwLog = << >>
  /\ drainLog = << >>

SSEIdle ==
  /\ spc = "idle"
  /\ w = [Header |-> {}, writes |-> << >>, flushes |-> 0]
  /\ flusher = FALSE
  /\ sseErr = NilErr

RunIdle ==
  /\ wpc = "idle"
  /\ resp = [Header |-> {}, writes |-> << >>, flushes |-> 0, flusher |-> FALSE,
            broken |-> FALSE]
  /\ runCtx = NilErr
  /\ runRet = << >>

WrapIdle ==
  /\ mws = << >>
  /\ wrapped = << >>
  /\ wrapI = 0
  /\ call = [pc |-> "idle"]
  /\ lmLog = << >>

RegistryIdle ==
  /\ languageModels = << >>
  /\ embeddingModels = << >>
  /\ mu = [writer |-> FALSE, readers |-> 0]
  /\ gor = << >>
  /\ latest = << >>

StreamIdle ==
  /\ vendor = "openai"
  /\ body = << >>
  /\ bodyEnd = "open"
  /\ done = FALSE
  /\ closes = 0
  /\ streamCtx = NilErr
  /\ nextLog = << >>
  /\ closeLog = << >>

(***************************************************************************)
(* Helpers of RunWithEvents.                                               *)
(***************************************************************************)
\* Config.validate: the error, or NilErr
validate(c) ==
  IF c.RegistryNil
    THEN InvalidArgumentError("Registry", "must not be nil")
    ELSE IF c.ModelName = ""
      THEN InvalidArgumentError("ModelName", "must not be empty")
      ELSE NilErr

\* maxStepsOrDefault with a seeded fault: zero is taken as it is
maxStepsOrDefault_NegativeOnly(v) == IF v < 0 THEN DefaultMaxSteps ELSE v

maxStepsOrDefault(v) == IF v <= 0 THEN DefaultMaxSteps ELSE v

\* emitEvent: the emitter is called only when it is not nil
emitEvent(evs, e) == IF emit THEN Append(evs, e) ELSE evs

\* the error of a Write on a connection the client has left
ErrBrokenPipe == Err("*net.OpError", "write: broken pipe")
WriteOutcomes == {NilErr, ErrBrokenPipe}

\* json.Marshal of an Event: the fields in the order of the struct, those
\* tagged omitempty left out when they have the zero value.  No string of
\* the model holds a character that JSON escapes.
Marshal(e) ==
  "{\"type\":\"" \o e.Type \o "\""
    \o (IF e.Step # 0 THEN ",\"step\":" \o ToString(e.Step) ELSE "")
    \o (IF e.Role # "" THEN ",\"role\":\"" \o e.Role \o "\"" ELSE "")
    \o (IF e.Content # "" THEN ",\"content\":\"" \o e.Content \o "\"" ELSE "")
    \o (IF e.Tool # "" THEN ",\"tool\":\"" \o e.Tool \o "\"" ELSE "")
    \o "}"

\* a Write on the response: the bytes arrive unless the client has left, and
\* then the error is a broken pipe
WriteBytes(r, bytes) == IF r.broken THEN r ELSE [r EXCEPT !.writes = Append(@, bytes)]
WriteErr(r) == IF r.broken THEN ErrBrokenPipe ELSE NilErr

\* the emit closure of WriteRunAsSSE, called with event e on the writer r:
\* nothing when the context is done; else one Fprintf and, unless it
\* failed, one Flush
emitSSE(r, ctxErr_, e) ==
  IF ctxErr_ # NilErr
    THEN r
    ELSE IF WriteErr(r) # NilErr
      THEN WriteBytes(r, "data: " \o Marshal(e) \o "\n\n")
      ELSE [WriteBytes(r, "data: " \o Marshal(e) \o "\n\n") EXCEPT !.flushes = @ + 1]

RECURSIVE emitAll(_, _, _)
emitAll(r, ctxErr_, evs) ==
  IF Len(evs) = 0
    THEN r
    ELSE emitAll(emitSSE(r, ctxErr_, Head(evs)), ctxErr_, Tail(evs))

\* what the calls of the emitter in one step of RunWithEvents do: under
\* WriteRunAsSSE each event handed to the emitter goes through the closure;
\* the context may be cancelled between two of the calls
Emitter ==
  IF wpc # "run"
    THEN UNCHANGED runVars
    ELSE /\ LET new == SubSeq(events', Len(events) + 1, Len(events'))
            IN  \E k \in 0 .. Len(new) :
                  /\ k < Len(new) => runCtx = NilErr
                  /\ runCtx' = IF k < Len(new) THEN ContextCanceled ELSE runCtx
                  /\ resp' = emitAll(resp, runCtx, SubSeq(new, 1, k))
         /\ UNCHANGED <<wpc, runRet>>

\* the tool definitions built from cfg.Tools; Go iterates a map in no fixed
\* order, so the list is modelled as the set of its elements
BuildToolDefs(tools) ==
  { ToolDefinition(name, tools[name].Description) : name \in DOMAIN tools }

\* StepsExhausted with a seeded fault: the test is off by one
StepsExhausted_OffByOne(n, max) == n > max

\* the loop's exit test
StepsExhausted(n, max) == n >= max

\* ai.GenerateText with a model that answers `out`; modelNil: req.Model == nil
GenerateText(modelNil, out) ==
  IF modelNil
    THEN [err |-> ErrMissingModel, Text |-> "", ToolCalls |-> << >>]
    ELSE IF out.err # NilErr
      THEN [err |-> out.err, Text |-> "", ToolCalls |-> << >>]
      ELSE [err |-> NilErr, Text |-> out.Text, ToolCalls |-> out.ToolCalls]

\* GenerateTextWithRegistry with a seeded fault: the registry's error is replaced
GenerateTextWithRegistry_WrapsLookup(regNil, modelName, lookup, out) ==
  IF regNil
    THEN [err |-> InvalidArgumentError("reg", "registry must not be nil"),
          Text |-> "", ToolCalls |-> << >>]
    ELSE IF lookup = "notfound"
      THEN [err |-> Err("*fmt.wrapError",
                        "ai: lookup failed: " \o NoSuchModelError(modelName, "language").msg),
            Text |-> "", ToolCalls |-> << >>]
      ELSE GenerateText(lookup = "nilmodel", out)

\* ai.GenerateTextWithRegistry
GenerateTextWithRegistry(regNil, modelName, lookup, out) ==
  IF regNil
    THEN [err |-> InvalidArgumentError("reg", "registry must not be nil"),
          Text |-> "", ToolCalls |-> << >>]
    ELSE IF lookup = "notfound"
      THEN [err |-> NoSuchModelError(modelName, "language"),
            Text |-> "", ToolCalls |-> << >>]
      ELSE GenerateText(lookup = "nilmodel", out)

\* the last response the model gave
LastResponse ==
  [Text |-> genLog[Len(genLog)].Text, ToolCalls |-> genLog[Len(genLog)].ToolCalls]

\* what the model may answer to the next Generate call: an error, or a
\* response; after MaxVaried responses it repeats itself or stops calling tools
ModelOutputs ==
  { [err |-> e, Text |-> "", ToolCalls |-> << >>] : e \in ModelErrors }
  \cup { [err |-> NilErr, Text |-> r.Text, ToolCalls |-> r.ToolCalls] :
           r \in IF Len(genLog) < MaxVaried
                   THEN Responses
                   ELSE {LastResponse} \cup { q \in Responses : Len(q.ToolCalls) = 0 } }

\* every outcome the call of line 192 may have in the current state
GenerateOutcomes ==
  { GenerateTextWithRegistry(cfg.RegistryNil, cfg.ModelName, lookup, out) :
      lookup \in LookupOutcomes, out \in ModelOutputs }

\* the record of one Generate call
GenEntry(msgs, defs, o) ==
  [Messages |-> msgs, Tools |-> defs, err |-> o.err, Text |-> o.Text,
   ToolCalls |-> o.ToolCalls]

\* AppendAssistant with a seeded fault: the test for an empty text is missing
AppendAssistant_Always(msgs, text) == Append(msgs, Message(RoleAssistant, text))

\* AppendAssistant with a seeded fault: the append has slipped into the branch
\* that runs only when an emitter is given
AppendAssistant_IfEmitted(msgs, text) ==
  IF text # "" /\ emit THEN Append(msgs, Message(RoleAssistant, text)) ELSE msgs

\* lines 201-212: a non-empty text becomes an assistant message
AppendAssistant(msgs, text) ==
  IF text # "" THEN Append(msgs, Message(RoleAssistant, text)) ELSE msgs

EmitAssistant(evs, n, text) ==
  IF text # ""
    THEN emitEvent(evs, Event(EventTypeMessage, n, RoleAssistant, text, ""))
    ELSE evs

\* lines 224-232: the lookup cfg.Tools[tc.Name]
ToolRegistered(tools, name) == name \in DOMAIN tools

\* the error of line 226
NoToolError(name) ==
  UnsupportedFunctionalityError("agent.tool", "no tool registered with name " \o Quote(name))

\* the error of line 167
MaxStepsError(max) ==
  UnsupportedFunctionalityError("agent.maxSteps",
                                "maximum steps (" \o ToString(max) \o ") exceeded")

\* lines 253-256: the message appended for a tool result
ToolMessage(data) == Message(RoleTool, data)

\* AppendToolMessage with a seeded fault: the message is put in front of the history
AppendToolMessage_Front(msgs, data) == <<ToolMessage(data)>> \o msgs

\* AppendToolMessage with a seeded fault: the message takes the place of the
\* last one of the history
AppendToolMessage_Overwrites(msgs, data) ==
  [msgs EXCEPT ![Len(msgs)] = ToolMessage(data)]

AppendToolMessage(msgs, data) == Append(msgs, ToolMessage(data))

\* DoneResult with a seeded fault: the Result holds the history taken before the last
\* assistant message was appended
DoneResult_BeforeAppend(msgs, text, n) ==
  Result(IF text # "" THEN SubSeq(msgs, 1, Len(msgs) - 1) ELSE msgs, text, n)

\* DoneResult with a seeded fault: the final reasoning call is counted as a step
DoneResult_StepsIncremented(msgs, text, n) == Result(msgs, text, n + 1)

\* lines 216-220: the Result of a run that ends without tool calls; msgs is
\* the history after the assistant message was appended
DoneResult(msgs, text, n) == Result(msgs, text, n)

\* EmitUnregistered with a seeded fault: tool_start is emitted before the lookup
EmitUnregistered_WithStart(evs, n, name) ==
  emitEvent(emitEvent(evs, Event(EventTypeToolStart, n, "", "", name)),
            Event(EventTypeError, n, "", NoToolError(name).msg, name))

\* EmitUnregistered with a seeded fault: the error is returned without an event
EmitUnregistered_Silent(evs, n, name) == evs

\* line 230: the event emitted for a tool call that names no registered tool
EmitUnregistered(evs, n, name) ==
  emitEvent(evs, Event(EventTypeError, n, "", NoToolError(name).msg, name))

\* EmitToolStart with a seeded fault: the event carries the number of the step
\* to come
EmitToolStart_NextStep(evs, n, toolName) ==
  emitEvent(evs, Event(EventTypeToolStart, n + 1, "", "", toolName))

\* line 234
EmitToolStart(evs, n, toolName) ==
  emitEvent(evs, Event(EventTypeToolStart, n, "", "", toolName))

\* the record of one Execute call: the tool call, the batch (number of the
\* Generate call that asked for it), what Execute returned, and the length of
\* the history when it was called
ExecEntry(tc, o) ==
  [gen |-> Len(genLog), ID |-> tc.ID, Name |-> tc.Name, Args |-> tc.RawArguments,
   result |-> o.result, err |-> o.err, histLen |-> Len(messages)]

\* ReturnError with a seeded fault: the error is wrapped before it is returned
ReturnError_Wrapped(e) ==
  /\ pc' = "returned"
  /\ retResult' = << >>
  /\ retErr' = Err("*fmt.wrapError", "agent: " \o e.msg)

\* return nil, err
ReturnError(e) ==
  /\ pc' = "returned"
  /\ retResult' = << >>
  /\ retErr' = e

(***************************************************************************)
(* Init: the arguments of one call of RunWithEvents.                       *)
(***************************************************************************)
Init ==
  /\ cfg \in Configs
  /\ initialMessages \in InitialMessageLists
  /\ emit \in BOOLEAN
  /\ pc = "start"
  /\ messages = << >>
  /\ steps = 0
  /\ maxSteps = 0
  /\ res = NoResponse
  /\ idx = 0
  /\ retResult = << >>
  /\ retErr = NilErr
  /\ events = << >>
  /\ genLog = << >>
  /\ execLog = << >>
  /\ first = NoFirst
  /\ RetryIdle
  /\ StreamIdle
  /\ SSEIdle
  /\ RunIdle
  /\ WrapIdle
  /\ RegistryIdle

(***************************************************************************)
(* Actions.                                                                *)
(***************************************************************************)
\* lines 151-153: validation fails
ValidateFails ==
  /\ pc = "start"
  /\ validate(cfg) # NilErr
  /\ ReturnError(validate(cfg))
  /\ UNCHANGED <<first, retryVars, streamVars, sseVars, runVars, wrapVars, regVars>>
  /\ UNCHANGED <<cfg, initialMessages, emit, messages, steps, maxSteps, res, idx,
                 events, genLog, execLog>>

\* lines 151-163: validation passes; the locals are set up
Start ==
  /\ pc = "start"
  /\ validate(cfg) = NilErr
  /\ messages' = initialMessages
  /\ steps' = 0
  /\ maxSteps' = maxStepsOrDefault(cfg.MaxSteps)
  /\ pc' = "loop"
  /\ UNCHANGED <<first, retryVars, streamVars, sseVars, runVars, wrapVars, regVars>>
  /\ UNCHANGED <<cfg, initialMessages, emit, res, idx, retResult, retErr, events,
                 genLog, execLog>>

\* lines 166-173
MaxStepsExceeded ==
  /\ pc = "loop"
  /\ StepsExhausted(steps, maxSteps)
  /\ events' = emitEvent(events,
                 Event(EventTypeError, steps, "", MaxStepsError(maxSteps).msg, ""))
  /\ ReturnError(MaxStepsError(maxSteps))
  /\ UNCHANGED <<first, retryVars, streamVars, sseVars, wrapVars, regVars>>
  /\ Emitter
  /\ UNCHANGED <<cfg, initialMessages, emit, messages, steps, maxSteps, res, idx,
                 genLog, execLog>>

\* lines 175-199: the Generate call fails
GenerateFails ==
  /\ pc = "loop"
  /\ ~StepsExhausted(steps, maxSteps)
  /\ \E o \in GenerateOutcomes :
       /\ o.err # NilErr
       /\ genLog' = Append(genLog, GenEntry(messages, BuildToolDefs(cfg.Tools), o))
       /\ events' = emitEvent(events, Event(EventTypeError, steps, "", o.err.msg, ""))
       /\ ReturnError(o.err)
  /\ UNCHANGED <<first, retryVars, streamVars, sseVars, wrapVars, regVars>>
  /\ Emitter
  /\ UNCHANGED <<cfg, initialMessages, emit, messages, steps, maxSteps, res, idx,
                 execLog>>

\* lines 175-221: the response has no tool calls
GenerateDone ==
  /\ pc = "loop"
  /\ ~StepsExhausted(steps, maxSteps)
  /\ \E o \in GenerateOutcomes :
       /\ o.err = NilErr
       /\ Len(o.ToolCalls) = 0
       /\ genLog' = Append(genLog, GenEntry(messages, BuildToolDefs(cfg.Tools), o))
       /\ res' = [Text |-> o.Text, ToolCalls |-> o.ToolCalls]
       /\ messages' = AppendAssistant(messages, o.Text)
       /\ events' = emitEvent(EmitAssistant(events, steps, o.Text),
                              Event(EventTypeDone, steps, "", "", ""))
       /\ pc' = "returned"
       /\ retResult' = <<DoneResult(messages', o.Text, steps)>>
       /\ retErr' = NilErr
  /\ UNCHANGED <<first, retryVars, streamVars, sseVars, wrapVars, regVars>>
  /\ Emitter
  /\ UNCHANGED <<cfg, initialMessages, emit, steps, maxSteps, idx, execLog>>

\* lines 175-223: the response has tool calls; the batch starts
GenerateToolCalls ==
  /\ pc = "loop"
  /\ ~StepsExhausted(steps, maxSteps)
  /\ \E o \in GenerateOutcomes :
       /\ o.err = NilErr
       /\ Len(o.ToolCalls) > 0
       /\ genLog' = Append(genLog, GenEntry(messages, BuildToolDefs(cfg.Tools), o))
       /\ res' = [Text |-> o.Text, ToolCalls |-> o.ToolCalls]
       /\ messages' = AppendAssistant(messages, o.Text)
       /\ events' = EmitAssistant(events, steps, o.Text)
       /\ idx' = 1
       /\ pc' = "tools"
  /\ UNCHANGED <<first, retryVars, streamVars, sseVars, wrapVars, regVars>>
  /\ Emitter
  /\ UNCHANGED <<cfg, initialMessages, emit, steps, maxSteps, retResult, retErr,
                 execLog>>

\* lines 224-232: the tool call names no registered tool
ToolUnregistered ==
  /\ pc = "tools"
  /\ LET tc == res.ToolCalls[idx]
     IN  /\ ~ToolRegistered(cfg.Tools, tc.Name)
         /\ events' = EmitUnregistered(events, steps, tc.Name)
         /\ ReturnError(NoToolError(tc.Name))
  /\ UNCHANGED <<first, retryVars, streamVars, sseVars, wrapVars, regVars>>
  /\ Emitter
  /\ UNCHANGED <<cfg, initialMessages, emit, messages, steps, maxSteps, res, idx,
                 genLog, execLog>>

\* lines 224-241: Execute returns an error
ToolExecuteFails ==
  /\ pc = "tools"
  /\ LET tc == res.ToolCalls[idx]
     IN  /\ ToolRegistered(cfg.Tools, tc.Name)
         /\ LET tool == cfg.Tools[tc.Name]
            IN  \E o \in ExecOutcomes :
                  /\ o.err # NilErr
                  /\ execLog' = Append(execLog, ExecEntry(tc, o))
                  /\ events' =
                       emitEvent(
                         EmitToolStart(events, steps, tool.Name),
                         Event(EventTypeError, steps, "", o.err.msg, tool.Name))
                  /\ ReturnError(o.err)
  /\ UNCHANGED <<first, retryVars, streamVars, sseVars, wrapVars, regVars>>
  /\ Emitter
  /\ UNCHANGED <<cfg, initialMessages, emit, messages, steps, maxSteps, res, idx, genLog>>

\* lines 224-251: Execute succeeds, its result cannot be encoded as JSON
ToolMarshalFails ==
  /\ pc = "tools"
  /\ LET tc == res.ToolCalls[idx]
     IN  /\ ToolRegistered(cfg.Tools, tc.Name)
         /\ LET tool == cfg.Tools[tc.Name]
            IN  \E o \in ExecOutcomes :
                  /\ o.err = NilErr
                  /\ MarshalPayload(tool.Name, o.result).err # NilErr
                  /\ execLog' = Append(execLog, ExecEntry(tc, o))
                  /\ events' =
                       emitEvent(
                         EmitToolStart(events, steps, tool.Name),
                         Event(EventTypeError, steps, "",
                               MarshalPayload(tool.Name, o.result).err.msg, tool.Name))
                  /\ ReturnError(MarshalPayload(tool.Name, o.result).err)
  /\ UNCHANGED <<first, retryVars, streamVars, sseVars, wrapVars, regVars>>
  /\ Emitter
  /\ UNCHANGED <<cfg, initialMessages, emit, messages, steps, maxSteps, res, idx, genLog>>

\* lines 224-260: the tool call succeeds; after the last one of the batch
\* the step counter is incremented and the loop starts over
ToolSucceeds ==
  /\ pc = "tools"
  /\ LET tc == res.ToolCalls[idx]
     IN  /\ ToolRegistered(cfg.Tools, tc.Name)
         /\ LET tool == cfg.Tools[tc.Name]
            IN  \E o \in ExecOutcomes :
                  /\ o.err = NilErr
                  /\ MarshalPayload(tool.Name, o.result).err = NilErr
                  /\ execLog' = Append(execLog, ExecEntry(tc, o))
                  /\ messages' =
                       AppendToolMessage(messages, MarshalPayload(tool.Name, o.result).data)
                  /\ events' =
                       emitEvent(
                         EmitToolStart(events, steps, tool.Name),
                         Event(EventTypeToolResult, steps, "", "", tool.Name))
  /\ IF idx < Len(res.ToolCalls)
       THEN /\ idx' = idx + 1
            /\ UNCHANGED <<pc, steps>>
       ELSE /\ idx' = 0
            /\ steps' = steps + 1
            /\ pc' = "loop"
  /\ UNCHANGED <<first, retryVars, streamVars, sseVars, wrapVars, regVars>>
  /\ Emitter
  /\ UNCHANGED <<cfg, initialMessages, emit, maxSteps, res, retResult, retErr, genLog>>

Next ==
  \/ ValidateFails
  \/ Start
  \/ MaxStepsExceeded
  \/ GenerateFails
  \/ GenerateDone
  \/ GenerateToolCalls
  \/ ToolUnregistered
  \/ ToolExecuteFails
  \/ ToolMarshalFails
  \/ ToolSucceeds

Spec == Init /\ [][Next]_vars

(***************************************************************************)
(* Vocabulary of the properties, read off the two histories.               *)
(***************************************************************************)
\* the configuration passes validation
ConfigValid == ~cfg.RegistryNil /\ cfg.ModelName # ""

\* the effective maximum: Config.MaxSteps, or 8 when that is zero or negative
EffectiveMaxSteps == IF cfg.MaxSteps <= 0 THEN 8 ELSE cfg.MaxSteps

\* the Execute calls made for the tool calls of the g-th Generate response
BatchExecs(g) == SelectSeq(execLog, LAMBDA e : e.gen = g)

\* a tool call succeeded: Execute returned no error and a result that JSON
\* can encode
ExecOk(e) == e.err = NilErr /\ e.result.kind = "int"

CallsRegistered(g) ==
  \A i \in 1 .. Len(genLog[g].ToolCalls) :
    genLog[g].ToolCalls[i].Name \in DOMAIN cfg.Tools

\* the g-th response asked for tools and every one of its calls succeeded
BatchCompleted(g) ==
  LET ex == BatchExecs(g)
  IN  /\ genLog[g].err = NilErr
      /\ Len(genLog[g].ToolCalls) >= 1
      /\ Len(ex) = Len(genLog[g].ToolCalls)
      /\ \A j \in 1 .. Len(ex) : ExecOk(ex[j])

CompletedBatches == Cardinality({ g \in 1 .. Len(genLog) : BatchCompleted(g) })

\* so far the model has always answered with tool calls, all of them naming
\* registered tools, and every tool call made has succeeded
AlwaysToolCalls ==
  /\ \A g \in 1 .. Len(genLog) :
       /\ genLog[g].err = NilErr
       /\ Len(genLog[g].ToolCalls) >= 1
       /\ CallsRegistered(g)
  /\ \A j \in 1 .. Len(execLog) : ExecOk(execLog[j])

IsMaxStepsError(e, n) ==
  /\ e.type = "*ai.UnsupportedFunctionalityError"
  /\ e.msg = "ai: unsupported functionality (agent.maxSteps): maximum steps ("
               \o ToString(n) \o ") exceeded"

\* the tool calls the responses asked for, in order, from response g on
RECURSIVE RequestedFrom(_)
RequestedFrom(g) ==
  IF g > Len(genLog)
    THEN << >>
    ELSE [i \in 1 .. Len(genLog[g].ToolCalls) |->
            <<g, genLog[g].ToolCalls[i].ID, genLog[g].ToolCalls[i].Name,
              genLog[g].ToolCalls[i].RawArguments>>]
         \o RequestedFrom(g + 1)

\* the tool calls executed, in order
ExecutedCalls ==
  [j \in 1 .. Len(execLog) |->
     <<execLog[j].gen, execLog[j].ID, execLog[j].Name, execLog[j].Args>>]

(***************************************************************************)
(* Properties.                                                             *)
(***************************************************************************)
\* C1: with an effective MaxSteps of N >= 1 and a model whose every response
\* asks for at least one registered tool whose call succeeds, the run never
\* makes more than N Generate calls nor completes more than N batches, is
\* never stuck before it returns, and when it returns it returns the
\* max-steps-exceeded error and no Result, after exactly N Generate calls
\* and N completed tool batches.
C1_MaxStepsTerminates ==
  (ConfigValid /\ AlwaysToolCalls) =>
    /\ Len(genLog) <= EffectiveMaxSteps
    /\ CompletedBatches <= EffectiveMaxSteps
    /\ pc # "returned" => ENABLED Next
    /\ pc = "returned" =>
         /\ IsMaxStepsError(retErr, EffectiveMaxSteps)
         /\ retResult = << >>
         /\ Len(genLog) = EffectiveMaxSteps
         /\ CompletedBatches = EffectiveMaxSteps
         /\ steps = EffectiveMaxSteps

\* a run with MaxSteps = 2 ended by the max-steps error after two batches
C1_Witness ==
  /\ pc = "returned"
  /\ ConfigValid
  /\ AlwaysToolCalls
  /\ cfg.MaxSteps = 2
  /\ Len(genLog) = 2
  /\ CompletedBatches = 2
  /\ IsMaxStepsError(retErr, 2)

\* C2: when the run has returned and the last response had no tool calls,
\* then with k the number of earlier responses: k is below the effective
\* MaxSteps, each of the k responses asked for tools and all its calls
\* succeeded, exactly the requested tool calls were executed, k+1 Generate
\* calls were made and a Result with Steps = k is returned.  And as long as
\* fewer batches than the effective MaxSteps are completed, the loop makes
\* the next Generate call instead of giving up.
C2_ToolCallsThenDone ==
  ConfigValid =>
    /\ ( /\ pc = "returned"
         /\ genLog # << >>
         /\ genLog[Len(genLog)].err = NilErr
         /\ Len(genLog[Len(genLog)].ToolCalls) = 0 ) =>
           LET k == Len(genLog) - 1
           IN  /\ k < EffectiveMaxSteps
               /\ \A g \in 1 .. k : BatchCompleted(g)
               /\ ExecutedCalls = RequestedFrom(1)
               /\ retErr = NilErr
               /\ Len(retResult) = 1
               /\ retResult[1].Steps = k
    /\ (pc = "loop" /\ CompletedBatches < EffectiveMaxSteps) =>
         /\ ~ENABLED MaxStepsExceeded
         /\ ENABLED GenerateDone

\* one tool call on step 0, none on step 1: 2 Generate calls, 1 tool
\* execution, Steps = 1
C2_Witness ==
  /\ pc = "returned"
  /\ Len(genLog) = 2
  /\ Len(genLog[1].ToolCalls) = 1
  /\ genLog[2].err = NilErr
  /\ Len(genLog[2].ToolCalls) = 0
  /\ Len(execLog) = 1
  /\ retResult = <<Result(messages, genLog[2].Text, 1)>>

\* the run was ended by a tool call that names no registered tool (pc, res and
\* idx keep the position of the return statement)
UnregisteredAbort ==
  /\ pc = "returned"
  /\ idx >= 1
  /\ res.ToolCalls[idx].Name \notin DOMAIN cfg.Tools

LastGen == genLog[Len(genLog)]

\* the history when the batch of the last response started: the history
\* given to that Generate call and the assistant message of its response
HistoryAtBatchStart ==
  IF LastGen.Text # ""
    THEN Append(LastGen.Messages, Message("assistant", LastGen.Text))
    ELSE LastGen.Messages

\* C3 (as claimed): when a batch contains a tool call that names no
\* registered tool, the run ends with an error and the history is exactly
\* what it was before that batch started, whatever the position of the call.
C3_HistoryUntouched ==
  UnregisteredAbort =>
    /\ retErr # NilErr
    /\ retResult = << >>
    /\ messages = HistoryAtBatchStart

\* C4: no tool call naming an unregistered tool is executed and none is
\* executed after a failed one of its batch; no Generate call follows a
\* batch that was not completed; an Execute error ends the run at once with
\* that very error and no Result; an unregistered name ends the run at once
\* with the no-tool error and no Result; a run that has returned does nothing
\* more.
C4_FailFast ==
  /\ \A g \in 1 .. Len(genLog) :
       LET ex == BatchExecs(g)
       IN  /\ Len(ex) <= Len(genLog[g].ToolCalls)
           /\ \A j \in 1 .. Len(ex) :
                /\ ex[j].Name \in DOMAIN cfg.Tools
                /\ j < Len(ex) => ExecOk(ex[j])
           /\ (g < Len(genLog) /\ genLog[g].ToolCalls # << >>) => BatchCompleted(g)
  /\ \A j \in 1 .. Len(execLog) :
       execLog[j].err # NilErr =>
         /\ j = Len(execLog)
         /\ execLog[j].gen = Len(genLog)
         /\ pc = "returned"
         /\ retResult = << >>
         /\ retErr = execLog[j].err
  /\ (pc = "tools" /\ res.ToolCalls[idx].Name \notin DOMAIN cfg.Tools) =>
       /\ ENABLED ToolUnregistered
       /\ ~ENABLED ToolSucceeds
       /\ ~ENABLED ToolExecuteFails
       /\ ~ENABLED ToolMarshalFails
  /\ UnregisteredAbort =>
       /\ retResult = << >>
       /\ retErr = Err("*ai.UnsupportedFunctionalityError",
                       "ai: unsupported functionality (agent.tool): no tool registered with name \""
                         \o res.ToolCalls[idx].Name \o "\"")
       /\ Len(BatchExecs(Len(genLog))) = idx - 1
  /\ pc = "returned" => ~ENABLED Next

\* the second tool call of a batch failed in Execute after the first succeeded
C4_Witness ==
  /\ pc = "returned"
  /\ Len(execLog) = 2
  /\ execLog[1].gen = execLog[2].gen
  /\ ExecOk(execLog[1])
  /\ execLog[2].err \in ToolErrors
  /\ retErr = execLog[2].err
  /\ Len(genLog[Len(genLog)].ToolCalls) = 2

\* the JSON texts that denote the object {"tool": name, "result": v}
JsonObjectTexts(name, v) ==
  { "{\"tool\":\"" \o name \o "\",\"result\":" \o ToString(v.n) \o "}",
    "{\"result\":" \o ToString(v.n) \o ",\"tool\":\"" \o name \o "\"}" }

\* C5: in every batch the Execute calls follow the tool calls of the response
\* one by one, in order and without skipping or merging calls of the same
\* name; when a call starts, the result message of the previous call of the
\* batch is already in the history; and the tool messages sit in the history
\* in the order of the calls.  Batches do not interleave.
C5_SequentialInOrder ==
  /\ \A g \in 1 .. Len(genLog) :
       LET ex == BatchExecs(g)
           calls == genLog[g].ToolCalls
       IN  /\ Len(ex) <= Len(calls)
           /\ \A j \in 1 .. Len(ex) :
                /\ ex[j].ID = calls[j].ID
                /\ ex[j].Name = calls[j].Name
                /\ ex[j].Args = calls[j].RawArguments
                /\ j > 1 => ex[j].histLen = ex[j - 1].histLen + 1
                /\ ExecOk(ex[j]) =>
                     /\ Len(messages) > ex[j].histLen
                     /\ messages[ex[j].histLen + 1].Role = "tool"
                     /\ messages[ex[j].histLen + 1].Content \in
                          JsonObjectTexts(cfg.Tools[calls[j].Name].Name, ex[j].result)
  /\ \A j \in 1 .. Len(execLog) - 1 : execLog[j].gen <= execLog[j + 1].gen

\* a batch that names the same tool twice: both calls were executed, in order
C5_Witness ==
  /\ Len(execLog) = 2
  /\ execLog[1].gen = execLog[2].gen
  /\ execLog[1].Name = execLog[2].Name
  /\ execLog[1].ID = "call_1"
  /\ execLog[2].ID = "call_2"
  /\ ExecOk(execLog[1])
  /\ ExecOk(execLog[2])
  /\ messages[Len(messages)].Role = "tool"
  /\ messages[Len(messages) - 1].Role = "tool"

\* C6: for every tool call that succeeded, the history holds, right after
\* the messages it held when the tool was called, a message of role "tool"
\* whose content is a JSON text of the object {"tool": name of the tool,
\* "result": its result}; and the next Generate call, if there is one, is
\* given a history with the same earlier messages followed by that message.
C6_ToolResultMessage ==
  \A j \in 1 .. Len(execLog) :
    ExecOk(execLog[j]) =>
      /\ Len(messages) > execLog[j].histLen
      /\ messages[execLog[j].histLen + 1].Role = "tool"
      /\ messages[execLog[j].histLen + 1].Content \in
           JsonObjectTexts(cfg.Tools[execLog[j].Name].Name, execLog[j].result)
      /\ execLog[j].gen < Len(genLog) =>
           /\ Len(genLog[execLog[j].gen + 1].Messages) > execLog[j].histLen
           /\ SubSeq(genLog[execLog[j].gen + 1].Messages, 1, execLog[j].histLen + 1)
                = SubSeq(messages, 1, execLog[j].histLen + 1)

\* the scenario of the spec: user asks "2+3?", the model calls add, add
\* returns 5, and the second Generate call sees the tool message
C6_Witness ==
  /\ Len(genLog) = 2
  /\ Len(execLog) = 1
  /\ execLog[1].Name = "add"
  /\ execLog[1].result = IntValue(5)
  /\ genLog[2].Messages[1] = Message("user", "2+3?")
  /\ genLog[2].Messages[Len(genLog[2].Messages)].Role = "tool"
  /\ genLog[2].Messages[Len(genLog[2].Messages)].Content
       \in JsonObjectTexts("add", IntValue(5))

\* what the run appended to the history from response g on, as the two
\* histories tell it: for each response its non-empty text, then one item
\* per tool call of its batch that succeeded
RECURSIVE ExpectedAppended(_)
ExpectedAppended(g) ==
  IF g > Len(genLog)
    THEN << >>
    ELSE (IF genLog[g].err = NilErr /\ genLog[g].Text # ""
            THEN <<[role |-> "assistant", text |-> genLog[g].Text, tool |-> "",
                    result |-> IntValue(0)]>>
            ELSE << >>)
         \o (LET ok == SelectSeq(BatchExecs(g), ExecOk)
             IN  [j \in 1 .. Len(ok) |->
                    [role |-> "tool", text |-> "", tool |-> cfg.Tools[ok[j].Name].Name,
                     result |-> ok[j].result]])
         \o ExpectedAppended(g + 1)

\* message m is the message of item it
ItemMessage(m, it) ==
  IF it.role = "assistant"
    THEN m = Message("assistant", it.text)
    ELSE m.Role = "tool" /\ m.Content \in JsonObjectTexts(it.tool, it.result)

\* msgs is the initial messages followed by the messages of the items
HistoryIs(msgs, items) ==
  /\ Len(msgs) = Len(initialMessages) + Len(items)
  /\ SubSeq(msgs, 1, Len(initialMessages)) = initialMessages
  /\ \A i \in 1 .. Len(items) : ItemMessage(msgs[Len(initialMessages) + i], items[i])

\* the last Generate call returned a response without tool calls
EndedWithoutToolCalls ==
  /\ pc = "returned"
  /\ genLog # << >>
  /\ LastGen.err = NilErr
  /\ Len(LastGen.ToolCalls) = 0

\* C7: a run returns a Result exactly when its last response had no tool
\* calls; the Result's Messages are the initial messages followed in order
\* by every assistant and tool message of the run, its FinalText is the text
\* of the last response, its Steps the number of completed batches, and the
\* done event is the last event.
C7_DoneResult ==
  /\ (pc = "returned" /\ retResult # << >>) => EndedWithoutToolCalls
  /\ EndedWithoutToolCalls =>
       /\ Len(retResult) = 1
       /\ retErr = NilErr
       /\ HistoryIs(retResult[1].Messages, ExpectedAppended(1))
       /\ retResult[1].FinalText = LastGen.Text
       /\ retResult[1].Steps = CompletedBatches
       /\ retResult[1].Steps = Len(genLog) - 1
       /\ emit => events[Len(events)] = Event("done", CompletedBatches, "", "", "")

\* a run of one batch whose two responses both had a text
C7_Witness ==
  /\ EndedWithoutToolCalls
  /\ Len(genLog) = 2
  /\ genLog[1].Text = "hi"
  /\ LastGen.Text = "hi"
  /\ Len(execLog) = 1
  /\ Len(retResult[1].Messages) = Len(initialMessages) + 3
  /\ retResult[1].Steps = 1

\* the events of step n, in order
StepEvents(n) == SelectSeq(events, LAMBDA e : e.Step = n)

\* C8: for every response with a non-empty text the assistant message with
\* that text is the first thing appended after the history the Generate call
\* was given, before any tool of the response is executed, and the message
\* event is the first event of the step, hence before every tool_start,
\* tool_result, error or done event of that response; for a response with an
\* empty text no assistant message is appended and no message event emitted.
C8_AssistantMessageFirst ==
  \A g \in 1 .. Len(genLog) :
    LET ex == BatchExecs(g)
        evs == StepEvents(g - 1)
        given == genLog[g].Messages
    IN  genLog[g].err = NilErr =>
          /\ given = SubSeq(messages, 1, Len(given))
          /\ genLog[g].Text # "" =>
               /\ Len(messages) > Len(given)
               /\ messages[Len(given) + 1] = Message("assistant", genLog[g].Text)
               /\ \A j \in 1 .. Len(ex) : ex[j].histLen = Len(given) + j
               /\ emit =>
                    /\ evs # << >>
                    /\ evs[1] = Event("message", g - 1, "assistant", genLog[g].Text, "")
                    /\ \A i \in 2 .. Len(evs) : evs[i].Type # "message"
          /\ genLog[g].Text = "" =>
               /\ \A j \in 1 .. Len(ex) : ex[j].histLen = Len(given) + j - 1
               /\ \A i \in 1 .. Len(evs) : evs[i].Type # "message"
               /\ (g = Len(genLog) /\ Len(ex) = 0) => messages = given

\* a response with a text and one tool call, the tool executed: the events
\* are message, tool_start, tool_result
C8_Witness ==
  /\ emit
  /\ Len(genLog) = 1
  /\ genLog[1].Text = "hi"
  /\ Len(execLog) = 1
  /\ Len(events) = 3
  /\ events[1].Type = "message"
  /\ events[2].Type = "tool_start"
  /\ events[3].Type = "tool_result"
  /\ messages[Len(messages) - 1] = Message("assistant", "hi")

\* the tool_start events, in order
ToolStartEvents == SelectSeq(events, LAMBDA e : e.Type = "tool_start")

\* C9 (as claimed): tool_start is emitted before the lookup, so a run ended
\* by an unregistered tool name has emitted a tool_start event for that name
\* right before the error event.
C9_ToolStartBeforeLookup ==
  (UnregisteredAbort /\ emit) =>
    /\ Len(events) >= 2
    /\ events[Len(events)].Type = "error"
    /\ events[Len(events) - 1].Type = "tool_start"
    /\ events[Len(events) - 1].Tool = res.ToolCalls[idx].Name

\* C9 (amended): the tool is looked up first; tool_start is emitted only for
\* a registered tool, once per Execute call and in the order of the calls,
\* and a call naming an unregistered tool produces no tool_start event: the
\* error event, which carries the requested name, directly follows the
\* events of the previous call.
C9_ToolStartAfterLookup ==
  emit =>
    /\ LET ts == ToolStartEvents
       IN  /\ Len(ts) = Len(execLog)
           /\ \A k \in 1 .. Len(execLog) :
                /\ ts[k].Tool = cfg.Tools[execLog[k].Name].Name
                /\ ts[k].Step = execLog[k].gen - 1
    /\ UnregisteredAbort =>
         /\ events[Len(events)] =
              Event("error", steps, "", retErr.msg, res.ToolCalls[idx].Name)
         /\ \A i \in 1 .. Len(events) :
              events[i].Type = "tool_start" => events[i + 1].Type \in {"tool_result", "error"}
         /\ Len(SelectSeq(StepEvents(steps), LAMBDA e : e.Type = "tool_start")) = idx - 1

\* the second call of a batch names an unregistered tool: one tool_start (for
\* the first call), then tool_result, then the error
C9_Witness ==
  /\ UnregisteredAbort
  /\ emit
  /\ idx = 2
  /\ Len(ToolStartEvents) = 1
  /\ events[Len(events)].Type = "error"
  /\ events[Len(events) - 1].Type = "tool_result"

\* the errors the registry and the model hand to GenerateTextWithRegistry,
\* and the error of GenerateText for a nil model
UnderlyingErrors ==
  ModelErrors
  \cup { [type |-> "*registry.NoSuchModelError",
          msg |-> "registry: no such language model \"" \o cfg.ModelName \o "\""],
         [type |-> "*errors.errorString", msg |-> "ai: missing LanguageModel in request"] }

ErrorEvents == SelectSeq(events, LAMBDA e : e.Type = "error")

\* C10: when a Generate call fails, the run has returned that very error (one
\* of the errors of the registry or the model, not a wrapper) and no Result,
\* has made no tool call for it and does nothing more; exactly one error
\* event was emitted, the last event, carrying the current step; and no
\* Generate call follows a failed one.
C10_GenerateFailure ==
  /\ \A g \in 1 .. Len(genLog) - 1 : genLog[g].err = NilErr
  /\ (genLog # << >> /\ LastGen.err # NilErr) =>
       /\ pc = "returned"
       /\ retResult = << >>
       /\ retErr = LastGen.err
       /\ retErr \in UnderlyingErrors
       /\ BatchExecs(Len(genLog)) = << >>
       /\ ~ENABLED Next
       /\ steps = CompletedBatches
       /\ emit =>
            /\ Len(ErrorEvents) = 1
            /\ events[Len(events)] = Event("error", CompletedBatches, "", retErr.msg, "")

\* the second Generate call fails because the model is no longer registered
C10_Witness ==
  /\ pc = "returned"
  /\ emit
  /\ Len(genLog) = 2
  /\ LastGen.err.type = "*registry.NoSuchModelError"
  /\ retErr = LastGen.err
  /\ events[Len(events)].Step = 1

(***************************************************************************)
(* Two runs on the same arguments: Run (no emitter) and RunWithEvents with *)
(* an emitter, against a registry, a model and tools that behave the same  *)
(* way both times.                                                         *)
(***************************************************************************)
\* Run(ctx, cfg, initialMessages) is RunWithEvents with a nil emitter: the
\* caller, having finished one run, starts the other kind of run on the same
\* cfg and initialMessages
Rerun ==
  /\ pc = "returned"
  /\ ~first.run
  /\ first' = [run |-> TRUE, emit |-> emit, genLog |-> genLog, execLog |-> execLog,
               retResult |-> retResult, retErr |-> retErr, events |-> events]
  /\ emit' = ~emit
  /\ pc' = "start"
  /\ messages' = << >>
  /\ steps' = 0
  /\ maxSteps' = 0
  /\ res' = NoResponse
  /\ idx' = 0
  /\ retResult' = << >>
  /\ retErr' = NilErr
  /\ events' = << >>
  /\ genLog' = << >>
  /\ execLog' = << >>
  /\ UNCHANGED <<cfg, initialMessages, retryVars, streamVars, sseVars, runVars, wrapVars, regVars>>

\* the environment of the second run behaves as it did in the first: the
\* n-th Generate call and the n-th Execute call return what they returned then
SameBehaviour ==
  first.run =>
    /\ (Len(genLog') > Len(genLog) /\ Len(genLog') <= Len(first.genLog)) =>
         LET n == Len(genLog')
         IN  /\ genLog'[n].err = first.genLog[n].err
             /\ genLog'[n].Text = first.genLog[n].Text
             /\ genLog'[n].ToolCalls = first.genLog[n].ToolCalls
    /\ (Len(execLog') > Len(execLog) /\ Len(execLog') <= Len(first.execLog)) =>
         LET n == Len(execLog')
         IN  /\ execLog'[n].result = first.execLog[n].result
             /\ execLog'[n].err = first.execLog[n].err

NextTwice ==
  \/ Next /\ SameBehaviour
  \/ Rerun

\* the first run is RunWithEvents with an emitter, the second is Run
InitTwice ==
  /\ Init
  /\ emit
  /\ initialMessages = <<Message(RoleSystem, "be brief"), Message(RoleUser, "2+3?")>>

SpecTwice == InitTwice /\ [][NextTwice]_vars

IsPrefix(s, t) == Len(s) <= Len(t) /\ SubSeq(t, 1, Len(s)) = s

\* C11: events have no effect on the outcome.  Of two runs on the same
\* configuration and initial messages against the same model and tool
\* behaviour, one with an emitter and one without (Run), the second makes the
\* Generate and Execute calls of the first, in the same order and with the
\* same arguments (messages, tool definitions, tool call), and returns the
\* same Result or the same error; the run without emitter emits nothing.
C11_EventsNoEffect ==
  /\ ~emit => events = << >>
  /\ first.run =>
       /\ first.emit /\ ~emit
       /\ IsPrefix(genLog, first.genLog)
       /\ IsPrefix(execLog, first.execLog)
       /\ pc = "returned" =>
            /\ genLog = first.genLog
            /\ execLog = first.execLog
            /\ retResult = first.retResult
            /\ retErr = first.retErr

\* both runs have finished with a Result after a tool batch, and the run with
\* the emitter has emitted events
C11_Witness ==
  /\ first.run
  /\ pc = "returned"
  /\ retResult # << >>
  /\ first.retResult = retResult
  /\ Len(execLog) >= 1
  /\ Len(first.events) + Len(events) >= 4

(***************************************************************************)
(* The retry middleware (RetryLanguageModel): one call of                  *)
(* retryLanguageModel.Generate or retryLanguageModel.Stream.               *)
(*                                                                         *)
(* Position rpc of the call:                                               *)
(*   "call"     about to invoke r.next.Generate / r.next.Stream            *)
(*   "sleep"    in sleepWithContext, at its select                         *)
(*   "returned" after a return statement                                   *)
(* The wrapped model, the timer and the context are the environment.       *)
(* time.Duration is a signed 64-bit count; the model keeps the arithmetic  *)
(* and scales the width down to DurationBits bits.                         *)
(***************************************************************************)
\* largest explicit RetryOptions.MaxAttempts tried
MaxAttemptsBound == 3
\* width of time.Duration in the model
DurationBits == 9
\* most Next calls the caller makes on a stream the wrapper returned
MaxDrain == 2

\* defaultRetryOptions: the defaults (durations are counted in milliseconds)
DefaultMaxAttempts == 3
DefaultInitialBackoff == 100

\* a Duration after an arithmetic operation: two's complement wrap-around
WrapDuration(n) ==
  LET m == n % (2 ^ DurationBits)
  IN  IF m >= 2 ^ (DurationBits - 1) THEN m - 2 ^ DurationBits ELSE m

\* errors the wrapped model may return besides the two above: a network
\* timeout, a rejected request, and the error net/http returns for a request
\* whose context was cancelled, which wraps context.Canceled
ErrDialTimeout == Err("*net.OpError", "dial tcp: i/o timeout")
ErrUnauthorized == Err("*errors.errorString", "status 401: invalid api key")
ErrURLCanceled == Err("*url.Error", "Post " \o Quote("https://api") \o ": context canceled")

CallErrors ==
  {ErrDialTimeout, ErrUnauthorized, ErrURLCanceled, ContextCanceled,
   ContextDeadlineExceeded}

\* errors.Unwrap
Unwrap(e) == IF e = ErrURLCanceled THEN ContextCanceled ELSE NilErr

\* errors.Is: err or an error it wraps is target
RECURSIVE ErrorsIs(_, _)
ErrorsIs(e, target) ==
  IF e = NilErr THEN FALSE
  ELSE IF e = target THEN TRUE
  ELSE ErrorsIs(Unwrap(e), target)

\* isTransientError: errors.As(err, &netErr) and netErr.Timeout() ||
\* netErr.Temporary().  *net.OpError and context.deadlineExceededError are
\* net.Errors that report a timeout; *url.Error is a net.Error that asks the
\* error it wraps, and context.Canceled reports neither
isTransientError(e) == e \in {ErrDialTimeout, ContextDeadlineExceeded}

\* RetryOptions.ShouldRetry: nil, or a predicate that accepts every error
Predicates == {"nil", "always"}

\* ShouldRetry with a seeded fault: every error is taken as transient
ShouldRetry_AcceptsAll(pred, e) == TRUE

\* r.opt.ShouldRetry(err)
ShouldRetry(pred, e) == IF pred = "always" THEN TRUE ELSE isTransientError(e)

\* the RetryOptions tried
InitialBackoffs == {0, 8, 2 ^ (DurationBits - 2)}
MaxBackoffs == {0, 5, 150}
RetryOptionsSet ==
  [MaxAttempts : {-1, 0} \cup (1 .. MaxAttemptsBound),
   InitialBackoff : InitialBackoffs, MaxBackoff : MaxBackoffs,
   ShouldRetry : Predicates]

defaultRetryOptions(o) ==
  [MaxAttempts |-> IF o.MaxAttempts <= 0 THEN DefaultMaxAttempts ELSE o.MaxAttempts,
   InitialBackoff |->
     IF o.InitialBackoff <= 0 THEN DefaultInitialBackoff ELSE o.InitialBackoff,
   MaxBackoff |-> o.MaxBackoff,
   ShouldRetry |-> IF o.ShouldRetry = "nil" THEN "isTransientError" ELSE o.ShouldRetry]

nextBackoff(current, max) ==
  LET next == WrapDuration(current * 2)
  IN  IF max > 0 /\ next > max THEN max ELSE next

\* IsCancellation with a seeded fault: only context.Canceled itself is recognised
IsCancellation_CanceledOnly(e) == e = ContextCanceled

\* errors.Is(err, context.Canceled) || errors.Is(err, context.DeadlineExceeded)
IsCancellation(e) ==
  ErrorsIs(e, ContextCanceled) \/ ErrorsIs(e, ContextDeadlineExceeded)

\* LoopContinues with a seeded fault: the loop has no bound
LoopContinues_Unbounded(n, max) == n <= MaxAttemptsBound + 2

\* the loop condition attempt <= r.opt.MaxAttempts
LoopContinues(n, max) == n <= max

\* the error returned after the loop, when no result was obtained
ErrExhausted(what) ==
  Err("*errors.errorString", "middleware: retry: exhausted attempts with no " \o what)

\* ExhaustedError with a seeded fault: the last error is replaced
ExhaustedError_Substitute(last, what) == ErrExhausted(what)

ExhaustedError(last, what) == IF last # NilErr THEN last ELSE ErrExhausted(what)

\* what the wrapped model's call number n may return: a response or stream,
\* nothing at all, or an error
CallOutcomes(n) ==
  { [res |-> <<[id |-> n]>>, err |-> NilErr], [res |-> << >>, err |-> NilErr] }
  \cup { [res |-> << >>, err |-> e] : e \in CallErrors }

\* sleepWithContext with a seeded fault: the context is not consulted
sleepWithContext_IgnoresContext(ctx, d) == {NilErr}

\* sleepWithContext: the errors its select may return.  ctx is ctx.Err()
\* when the select is resolved: the Done case is ready once ctx is
\* cancelled, the timer case once d has elapsed, which for d <= 0 is at
\* once; of two ready cases select takes either
sleepWithContext(ctx, d) ==
  IF ctx = NilErr THEN {NilErr}
  ELSE IF d <= 0 THEN {ctx, NilErr}
  ELSE {ctx}

\* GenerateResult with a seeded fault: the response of the call is dropped
GenerateResult_Dropped(r) == << >>

\* return res, nil
GenerateResult(r) == r

\* StreamResult with a seeded fault: the stream is exchanged for another object
StreamResult_Rewrapped(st) == <<[id |-> 0]>>

\* return stream, nil
StreamResult(st) == st

\* the record of an underlying call or of a sleep
CallEntry(n, o) ==
  [kind |-> "call", n |-> n, res |-> o.res, err |-> o.err, d |-> 0, ctx |-> ctxErr]
SleepEntry(n, d, e) ==
  [kind |-> "sleep", n |-> n, res |-> << >>, err |-> e, d |-> d, ctx |-> ctxErr]

\* RetryLanguageModel(opts) wraps a model, and Generate or Stream is called
InitRetry ==
  /\ opts \in RetryOptionsSet
  /\ opt = defaultRetryOptions(opts)
  /\ method \in {"Generate", "Stream"}
  /\ ctxErr = NilErr
  /\ rpc = "call"
  /\ attempt = 1
  /\ backoff = opt.InitialBackoff
  /\ lastErr = NilErr
  /\ stream = << >>
  /\ rwRet = << >>
  /\ rwErr = NilErr
  /\ rwLog = << >>
  /\ drainLog = << >>
  /\ first = NoFirst
  /\ AgentIdle
  /\ StreamIdle
  /\ SSEIdle
  /\ RunIdle
  /\ WrapIdle
  /\ RegistryIdle

RetryReturn(v, e) ==
  /\ rpc' = "returned"
  /\ rwRet' = v
  /\ rwErr' = e

\* Generate: the underlying call returns no error
GenerateSucceeds ==
  /\ rpc = "call"
  /\ method = "Generate"
  /\ \E o \in CallOutcomes(attempt) :
       /\ o.err = NilErr
       /\ rwLog' = Append(rwLog, CallEntry(attempt, o))
       /\ RetryReturn(GenerateResult(o.res), NilErr)
  /\ UNCHANGED <<opts, opt, method, ctxErr, attempt, backoff, lastErr, stream, drainLog>>
  /\ UNCHANGED <<agentVars, first, streamVars, sseVars, runVars, wrapVars, regVars>>

\* Stream: the underlying call returns no error; the loop is left and the
\* stream, if there is one, is returned
StreamEstablished ==
  /\ rpc = "call"
  /\ method = "Stream"
  /\ \E o \in CallOutcomes(attempt) :
       /\ o.err = NilErr
       /\ rwLog' = Append(rwLog, CallEntry(attempt, o))
       /\ stream' = o.res
       /\ IF o.res = << >>
            THEN RetryReturn(<< >>, ExhaustedError(lastErr, "stream"))
            ELSE RetryReturn(StreamResult(o.res), NilErr)
  /\ UNCHANGED <<opts, opt, method, ctxErr, attempt, backoff, lastErr, drainLog>>
  /\ UNCHANGED <<agentVars, first, streamVars, sseVars, runVars, wrapVars, regVars>>

\* Generate and Stream: the underlying call returns a cancellation or
\* deadline error
CallCancelled ==
  /\ rpc = "call"
  /\ \E o \in CallOutcomes(attempt) :
       /\ o.err # NilErr
       /\ IsCancellation(o.err)
       /\ rwLog' = Append(rwLog, CallEntry(attempt, o))
       /\ RetryReturn(<< >>, o.err)
  /\ UNCHANGED <<opts, opt, method, ctxErr, attempt, backoff, lastErr, stream, drainLog>>
  /\ UNCHANGED <<agentVars, first, streamVars, sseVars, runVars, wrapVars, regVars>>

\* Generate and Stream: ShouldRetry rejects the error
CallRejected ==
  /\ rpc = "call"
  /\ \E o \in CallOutcomes(attempt) :
       /\ o.err # NilErr
       /\ ~IsCancellation(o.err)
       /\ ~ShouldRetry(opt.ShouldRetry, o.err)
       /\ rwLog' = Append(rwLog, CallEntry(attempt, o))
       /\ RetryReturn(<< >>, o.err)
  /\ UNCHANGED <<opts, opt, method, ctxErr, attempt, backoff, lastErr, stream, drainLog>>
  /\ UNCHANGED <<agentVars, first, streamVars, sseVars, runVars, wrapVars, regVars>>

\* Generate and Stream: the error is retryable and attempts remain; the next
\* iteration begins with the sleep
CallRetried ==
  /\ rpc = "call"
  /\ LoopContinues(attempt + 1, opt.MaxAttempts)
  /\ \E o \in CallOutcomes(attempt) :
       /\ o.err # NilErr
       /\ ~IsCancellation(o.err)
       /\ ShouldRetry(opt.ShouldRetry, o.err)
       /\ rwLog' = Append(rwLog, CallEntry(attempt, o))
       /\ lastErr' = o.err
  /\ attempt' = attempt + 1
  /\ rpc' = "sleep"
  /\ UNCHANGED <<opts, opt, method, ctxErr, backoff, stream, rwRet, rwErr, drainLog>>
  /\ UNCHANGED <<agentVars, first, streamVars, sseVars, runVars, wrapVars, regVars>>

\* Generate and Stream: the error is retryable and it was the last attempt;
\* the loop ends and the last error is returned
AttemptsExhausted ==
  /\ rpc = "call"
  /\ ~LoopContinues(attempt + 1, opt.MaxAttempts)
  /\ \E o \in CallOutcomes(attempt) :
       /\ o.err # NilErr
       /\ ~IsCancellation(o.err)
       /\ ShouldRetry(opt.ShouldRetry, o.err)
       /\ rwLog' = Append(rwLog, CallEntry(attempt, o))
       /\ lastErr' = o.err
       /\ RetryReturn(<< >>,
            ExhaustedError(o.err, IF method = "Generate" THEN "result" ELSE "stream"))
  /\ attempt' = attempt + 1
  /\ UNCHANGED <<opts, opt, method, ctxErr, backoff, stream, drainLog>>
  /\ UNCHANGED <<agentVars, first, streamVars, sseVars, runVars, wrapVars, regVars>>

\* sleepWithContext returns nil: the backoff is doubled and the next attempt
\* is made
SleepElapses ==
  /\ rpc = "sleep"
  /\ NilErr \in sleepWithContext(ctxErr, backoff)
  /\ rwLog' = Append(rwLog, SleepEntry(attempt, backoff, NilErr))
  /\ backoff' = nextBackoff(backoff, opt.MaxBackoff)
  /\ rpc' = "call"
  /\ UNCHANGED <<opts, opt, method, ctxErr, attempt, lastErr, stream, rwRet, rwErr,
                 drainLog>>
  /\ UNCHANGED <<agentVars, first, streamVars, sseVars, runVars, wrapVars, regVars>>

\* sleepWithContext returns ctx.Err(): the call returns it
SleepCancelled ==
  /\ rpc = "sleep"
  /\ \E e \in sleepWithContext(ctxErr, backoff) :
       /\ e # NilErr
       /\ rwLog' = Append(rwLog, SleepEntry(attempt, backoff, e))
       /\ RetryReturn(<< >>, e)
  /\ UNCHANGED <<opts, opt, method, ctxErr, attempt, backoff, lastErr, stream, drainLog>>
  /\ UNCHANGED <<agentVars, first, streamVars, sseVars, runVars, wrapVars, regVars>>

\* the caller cancels the context, or its deadline passes, while the call is
\* in progress
CancelContext ==
  /\ rpc \in {"call", "sleep"}
  /\ ctxErr = NilErr
  /\ ctxErr' \in {ContextCanceled, ContextDeadlineExceeded}
  /\ UNCHANGED <<opts, opt, method, rpc, attempt, backoff, lastErr, stream, rwRet,
                 rwErr, rwLog, drainLog>>
  /\ UNCHANGED <<agentVars, first, streamVars, sseVars, runVars, wrapVars, regVars>>

\* the caller reads the stream it was given: Next returns a delta, the last
\* delta, or an error; the wrapper takes no part in it
CallerNext ==
  /\ rpc = "returned"
  /\ method = "Stream"
  /\ rwRet # << >>
  /\ Len(drainLog) < MaxDrain
  /\ IF drainLog = << >> THEN TRUE ELSE drainLog[Len(drainLog)].out = "delta"
  /\ \E out \in {"delta", "done", "error"} :
       drainLog' = Append(drainLog, [stream |-> rwRet[1], out |-> out])
  /\ UNCHANGED <<opts, opt, method, ctxErr, rpc, attempt, backoff, lastErr, stream,
                 rwRet, rwErr, rwLog>>
  /\ UNCHANGED <<agentVars, first, streamVars, sseVars, runVars, wrapVars, regVars>>

NextRetry ==
  \/ GenerateSucceeds
  \/ StreamEstablished
  \/ CallCancelled
  \/ CallRejected
  \/ CallRetried
  \/ AttemptsExhausted
  \/ SleepElapses
  \/ SleepCancelled
  \/ CancelContext
  \/ CallerNext

SpecRetry == InitRetry /\ [][NextRetry]_vars

\* the steps in which an underlying call or a sleep returns
RetrySteps ==
  \/ GenerateSucceeds
  \/ StreamEstablished
  \/ CallCancelled
  \/ CallRejected
  \/ CallRetried
  \/ AttemptsExhausted
  \/ SleepElapses
  \/ SleepCancelled

\* every underlying call and every sleep returns
SpecRetryFair == SpecRetry /\ WF_vars(RetrySteps)

(***************************************************************************)
(* Vocabulary of the properties of the retry wrapper, read off rwLog.      *)
(***************************************************************************)
\* the underlying calls made so far, and the sleeps, in order
Calls == SelectSeq(rwLog, LAMBDA e : e.kind = "call")
Sleeps == SelectSeq(rwLog, LAMBDA e : e.kind = "sleep")

\* the errors that are or wrap context.Canceled or context.DeadlineExceeded
CancellationErrors == {ContextCanceled, ContextDeadlineExceeded, ErrURLCanceled}

\* the errors the configured predicate classifies as transient
ClassifiedTransient ==
  IF opts.ShouldRetry = "always" THEN CallErrors
  ELSE {ErrDialTimeout, ContextDeadlineExceeded}

\* a call that failed with an error the wrapper may retry
RetryableFailure(c) ==
  c.err # NilErr /\ c.err \notin CancellationErrors /\ c.err \in ClassifiedTransient

\* a call that succeeded: no error and, for Stream, a stream
Succeeded(c) == c.err = NilErr /\ (method = "Stream" => c.res # << >>)

\* the configured maximum, with the default
EffectiveMaxAttempts == IF opts.MaxAttempts <= 0 THEN 3 ELSE opts.MaxAttempts

\* C12: with a ShouldRetry that accepts every error, a live context and an
\* underlying call that fails k times (with errors other than cancellation)
\* and then succeeds, k < MaxAttempts, the wrapper calls it exactly k+1
\* times and returns the result of the last call and no error: no call
\* follows a success, the wrapper does not give up after a failure while
\* attempts remain, and the value returned is the one of the last call.
\* A Stream call that returns neither a stream nor an error is not a success.
C12_RetriesUntilSuccess ==
  LET calls == Calls
      n == Len(calls)
  IN  (opts.ShouldRetry = "always" /\ ctxErr = NilErr
       /\ \A i \in 1 .. n : calls[i].err \notin CancellationErrors) =>
        /\ \A i \in 1 .. n - 1 : calls[i].err # NilErr
        /\ n <= EffectiveMaxAttempts
        /\ rpc = "returned" =>
             /\ n >= 1
             /\ calls[n].err # NilErr => n = EffectiveMaxAttempts
             /\ Succeeded(calls[n]) => (rwRet = calls[n].res /\ rwErr = NilErr)

\* two failures, then the third call succeeds and its result is returned
C12_Witness ==
  LET calls == Calls
  IN  /\ rpc = "returned"
      /\ opts.ShouldRetry = "always"
      /\ ctxErr = NilErr
      /\ Len(calls) = 3
      /\ calls[1].err = ErrDialTimeout
      /\ calls[2].err = ErrUnauthorized
      /\ calls[3].err = NilErr
      /\ rwRet = <<[id |-> 3]>>
      /\ rwErr = NilErr
      /\ method = "Generate"

\* C13: a cancellation or deadline error of the underlying call ends the
\* call: it was the last thing the wrapper did (no sleep, no further
\* attempt) and it is returned unchanged, also when the predicate classifies
\* it as transient and attempts remain.
C13_CancellationNotRetried ==
  \A i \in 1 .. Len(rwLog) :
    (rwLog[i].kind = "call" /\ rwLog[i].err \in CancellationErrors) =>
      /\ i = Len(rwLog)
      /\ rpc = "returned"
      /\ rwErr = rwLog[i].err
      /\ rwRet = << >>

\* the first call returns context.DeadlineExceeded, which the predicate in
\* use classifies as transient; two attempts remain
C13_Witness ==
  /\ rpc = "returned"
  /\ Len(rwLog) = 1
  /\ rwLog[1].err = ContextDeadlineExceeded
  /\ ContextDeadlineExceeded \in ClassifiedTransient
  /\ opt.ShouldRetry = "isTransientError"
  /\ opt.MaxAttempts = 3
  /\ rwErr = ContextDeadlineExceeded

\* C14: an error that ShouldRetry rejects ends the call: it was the last
\* thing the wrapper did (no sleep, no further attempt) and it is returned,
\* however many attempts remain.
C14_PermanentNotRetried ==
  \A i \in 1 .. Len(rwLog) :
    (rwLog[i].kind = "call" /\ rwLog[i].err # NilErr
     /\ rwLog[i].err \notin ClassifiedTransient) =>
      /\ i = Len(rwLog)
      /\ rpc = "returned"
      /\ rwErr = rwLog[i].err
      /\ rwRet = << >>

\* after one retried timeout the second of three attempts is rejected
C14_Witness ==
  /\ rpc = "returned"
  /\ opt.MaxAttempts = 3
  /\ Len(rwLog) = 3
  /\ rwLog[1].err = ErrDialTimeout
  /\ rwLog[2].kind = "sleep"
  /\ rwLog[3].err = ErrUnauthorized
  /\ rwErr = ErrUnauthorized

\* C15: when every attempt fails with a retryable error (and no sleep is
\* interrupted), the wrapper makes exactly MaxAttempts attempts, 3 when
\* MaxAttempts is zero or negative, and returns the error of the last one.
C15_ExhaustionReturnsLastError ==
  LET calls == Calls
      n == Len(calls)
  IN  ((\A i \in 1 .. n : RetryableFailure(calls[i]))
       /\ \A i \in 1 .. Len(rwLog) : rwLog[i].kind = "sleep" => rwLog[i].err = NilErr) =>
        /\ n <= EffectiveMaxAttempts
        /\ rpc = "returned" =>
             /\ n = EffectiveMaxAttempts
             /\ rwErr = calls[n].err
             /\ rwErr # NilErr
             /\ rwRet = << >>

\* MaxAttempts = 0: three attempts fail, the last with another error than
\* the ones before, and that error is returned
C15_Witness ==
  LET calls == Calls
  IN  /\ rpc = "returned"
      /\ opts.MaxAttempts = 0
      /\ Len(calls) = 3
      /\ calls[1].err = ErrUnauthorized
      /\ calls[2].err = ErrUnauthorized
      /\ calls[3].err = ErrDialTimeout
      /\ rwErr = ErrDialTimeout

C17_DoublingWithCap ==
  LET sl == Sleeps
  IN  /\ Len(sl) >= 1 => sl[1].d = opt.InitialBackoff
      /\ \A i \in 2 .. Len(sl) :
           /\ \/ sl[i].d = 2 * sl[i - 1].d
              \/ opt.MaxBackoff > 0 /\ sl[i].d = opt.MaxBackoff
           /\ sl[i].d >= sl[i - 1].d
      /\ opt.MaxBackoff > 0 => \A i \in 1 .. Len(sl) : sl[i].d <= opt.MaxBackoff

\* the wrapper's calls and sleeps alternate, beginning with a call; there
\* are at most MaxAttempts calls; a returned call has made at least one; and
\* a sleep is the last thing the wrapper did only when it was interrupted
AttemptsAndSleeps ==
  /\ \A i \in 1 .. Len(rwLog) :
       rwLog[i].kind = (IF i % 2 = 1 THEN "call" ELSE "sleep")
  /\ Len(Calls) <= EffectiveMaxAttempts
  /\ rpc = "returned" =>
       /\ Len(rwLog) >= 1
       /\ rwLog[Len(rwLog)].kind = "sleep" => rwLog[Len(rwLog)].err # NilErr

\* C18: every call of Generate or Stream returns, provided each underlying
\* call and each sleep returns; it makes at least one and at most MaxAttempts
\* underlying calls, sleeps exactly once between two consecutive calls and
\* never before the first; after its last call it does not sleep (a sleep
\* that is interrupted ends the call, see C16).
C18_TerminatesBounded == []AttemptsAndSleeps /\ <>(rpc = "returned")

\* three attempts with a sleep between each two, and no sleep after the third
C18_Witness ==
  /\ rpc = "returned"
  /\ opt.MaxAttempts = 3
  /\ Len(rwLog) = 5
  /\ Len(Calls) = 3
  /\ Len(Sleeps) = 2
  /\ rwLog[5].kind = "call"

\* C19: the wrapper retries only the establishment of a stream.  Once an
\* underlying Stream call has returned a stream, that call is the last thing
\* the wrapper did, the stream handed to the caller is that same stream, and
\* whatever its Next returns to the caller, an error included, the number of
\* underlying Stream calls stays what it was.
C19_NoRetryMidStream ==
  method = "Stream" =>
    /\ \A i \in 1 .. Len(rwLog) :
         (rwLog[i].kind = "call" /\ rwLog[i].err = NilErr /\ rwLog[i].res # << >>) =>
           /\ i = Len(rwLog)
           /\ rpc = "returned"
           /\ rwRet = rwLog[i].res
           /\ rwErr = NilErr
    /\ drainLog # << >> =>
         LET calls == Calls
         IN  /\ rwRet = calls[Len(calls)].res
             /\ rwRet[1].id = Len(calls)
             /\ \A j \in 1 .. Len(drainLog) : <<drainLog[j].stream>> = rwRet

\* the second Stream call returned a stream; the caller's second Next on it
\* failed, and there are still two underlying calls
C19_Witness ==
  /\ method = "Stream"
  /\ rpc = "returned"
  /\ Len(Calls) = 2
  /\ rwRet = <<[id |-> 2]>>
  /\ Len(drainLog) = 2
  /\ drainLog[2].out = "error"

(***************************************************************************)
(* The vendor streams: chatStream (OpenAI chat completions) and            *)
(* messagesStream (Anthropic messages), each a bufio.Scanner over the      *)
(* response body, and the caller that calls Next and Close.                *)
(*                                                                         *)
(* The body arrives over the network: a line exists for the stream once    *)
(* the scanner has consumed it, and what a Next call reads is chosen when   *)
(* it reads.  A line is its field prefix and the payload that follows (the *)
(* white space that TrimSpace removes is left out); a payload is its text  *)
(* where the code compares text, and otherwise the JSON document it holds. *)
(***************************************************************************)
\* most lines a body delivers
MaxLines == 3
\* most Next calls on one stream
MaxNext == MaxLines + 1
\* most Close calls on one stream
MaxCloses == 2

\* provider.LanguageModelDelta
Delta(text, toolCalls, isDone) == [Text |-> text, ToolCalls |-> toolCalls, Done |-> isDone]

\* payloads
Payload(raw, valid, choices, type, delta) ==
  [raw |-> raw, valid |-> valid, choices |-> choices, type |-> type, delta |-> delta]
NoPayload == Payload("", FALSE, << >>, "", << >>)
SentinelPayload == Payload("[DONE]", FALSE, << >>, "", << >>)
MalformedPayload == Payload("{", FALSE, << >>, "", << >>)

\* an OpenAI chunk {"choices":[...]} and its parts
Chunk(choices) == Payload("{}", TRUE, choices, "", << >>)
Choice(content, toolCalls, finish) ==
  [content |-> content, tool_calls |-> toolCalls, finish_reason |-> finish]
ChunkToolCall(type, id, name, arguments) ==
  [type |-> type, id |-> id, name |-> name, arguments |-> arguments]

\* an Anthropic event {"type":...,"delta":{...}}; delta << >> is absent
StreamEvent(type, delta) == Payload("{}", TRUE, << >>, type, delta)
\* its delta: `text` is the field the code decodes; `partial_json`, the
\* field of an input_json_delta, is in the payload and not in anthropicDelta
EventDelta(type, text) == <<[type |-> type, text |-> text, partial_json |-> ""]>>
ToolInputDelta(partial) ==
  <<[type |-> "input_json_delta", text |-> "", partial_json |-> partial]>>

\* lines
Line(prefix, payload) == [prefix |-> prefix, payload |-> payload]
BlankLine == Line("", NoPayload)
EventLine == Line("event:", NoPayload)
DataLine(p) == Line("data:", p)

\* the lines an OpenAI body may hold: a text fragment with the first
\* fragment of a tool call and a continuation fragment of another
\* (arguments only: no id, type or name), a text fragment with a finish
\* reason, a chunk without choices, the sentinel, a payload that is not
\* JSON, a blank line and a line of another field
OpenAILines ==
  { DataLine(Chunk(<<Choice("Hel",
                            <<ChunkToolCall("function", "call_1", "add", "[1,"),
                              ChunkToolCall("", "", "", "2]")>>,
                            "")>>)),
    DataLine(Chunk(<<Choice("lo", << >>, "stop")>>)),
    DataLine(Chunk(<< >>)),
    DataLine(SentinelPayload),
    DataLine(MalformedPayload),
    BlankLine,
    EventLine }

\* the lines an Anthropic body may hold: two text deltas, a tool-input
\* delta, message_stop, the sentinel, a payload that is not JSON, a blank
\* line and a line of another field
AnthropicLines ==
  { DataLine(StreamEvent("content_block_delta", EventDelta("text_delta", "Hel"))),
    DataLine(StreamEvent("content_block_delta", EventDelta("text_delta", "lo"))),
    DataLine(StreamEvent("content_block_delta", ToolInputDelta("[1,"))),
    DataLine(StreamEvent("message_stop", << >>)),
    DataLine(SentinelPayload),
    DataLine(MalformedPayload),
    BlankLine,
    EventLine }

LinesOf(v) == IF v = "openai" THEN OpenAILines ELSE AnthropicLines

\* what one Next call may find in the body: up to n further lines
Segments(v, n) == UNION { [1 .. k -> LinesOf(v)] : k \in 0 .. n }

\* errors of the scanner and of json.Unmarshal
ErrUnexpectedEOF == Err("*errors.errorString", "unexpected EOF")
ErrJSONSyntax == Err("*json.SyntaxError", "unexpected end of JSON input")

\* json.Unmarshal([]byte(data), &v)
Unmarshal(p) == IF p.valid THEN NilErr ELSE ErrJSONSyntax

\* json.RawMessage of a JSON string: the text of the string with its quotes
\* (the fragments used need no escapes)
RawMessage(str) == Quote(str)

\* what a Next call returns, and what it did: the delta (<< >> is nil) and
\* the error, whether s.done is set, the lines consumed, the calls of
\* scanner.Scan, whether Scan reported the end of the body, and whether the
\* body can behave as supposed
NextResult(delta, err, setsDone, used, scans, atEnd) ==
  [delta |-> delta, err |-> err, setsDone |-> setsDone, used |-> used,
   scans |-> scans, atEnd |-> atEnd, possible |-> TRUE]
Impossible ==
  [delta |-> << >>, err |-> NilErr, setsDone |-> FALSE, used |-> 0, scans |-> 0,
   atEnd |-> FALSE, possible |-> FALSE]

\* TerminalDelta with a seeded fault: the Done delta is returned and the stream is
\* not marked done
TerminalDelta_NotMarked(used, scans, atEnd) ==
  NextResult(<<Delta("", << >>, TRUE)>>, NilErr, FALSE, used, scans, atEnd)

\* s.done = true; return &provider.LanguageModelDelta{Done: true}, nil
TerminalDelta(used, scans, atEnd) ==
  NextResult(<<Delta("", << >>, TRUE)>>, NilErr, TRUE, used, scans, atEnd)

\* EndOfInput with a seeded fault: the end of the body is reported as an error
EndOfInput_AsError(i) == NextResult(<< >>, ErrUnexpectedEOF, FALSE, i, i + 1, TRUE)

\* scanner.Scan() returned false after i lines and scanner.Err() is nil
EndOfInput(i) == TerminalDelta(i, i + 1, TRUE)

\* the tool calls of a chunk's delta: those of type "function"
RECURSIVE FunctionToolCalls(_)
FunctionToolCalls(tcs) ==
  IF tcs = << >> THEN << >>
  ELSE LET tc == Head(tcs)
           rest == FunctionToolCalls(Tail(tcs))
       IN  IF tc.type # "function" THEN rest
           ELSE <<ToolCall(tc.id, tc.name, RawMessage(tc.arguments))>> \o rest

\* ChoiceDelta with a seeded fault: the chunk that carries the finish reason
\* loses its text
ChoiceDelta_FinishWithoutText(choice, used, scans) ==
  NextResult(<<Delta(IF choice.finish_reason # "" THEN "" ELSE choice.content,
                     FunctionToolCalls(choice.tool_calls),
                     choice.finish_reason # "")>>,
             NilErr, choice.finish_reason # "", used, scans, FALSE)

\* ChoiceDelta with a seeded fault: the finish reason is not looked at
ChoiceDelta_FinishIgnored(choice, used, scans) ==
  NextResult(<<Delta(choice.content, FunctionToolCalls(choice.tool_calls), FALSE)>>,
             NilErr, FALSE, used, scans, FALSE)

\* chatStream.Next from `choice := chunk.Choices[0]`
ChoiceDelta(choice, used, scans) ==
  NextResult(<<Delta(choice.content, FunctionToolCalls(choice.tool_calls),
                     choice.finish_reason # "")>>,
             NilErr, choice.finish_reason # "", used, scans, FALSE)

\* ContextDone with a seeded fault: the context is tested after the scan
ContextDone_AfterScan(i) == NextResult(<< >>, ContextCanceled, FALSE, i, i + 1, FALSE)

\* if err := ctx.Err(); err != nil { return nil, err }, after i lines
ContextDone(i) == NextResult(<< >>, ContextCanceled, FALSE, i, i, FALSE)

\* the loop of Next.  seg: the lines the body delivers during the call; i:
\* lines consumed so far; live: the number of iterations that find ctx.Err()
\* nil; end: what the body does after seg ("open": it delivers more)
RECURSIVE NextLoop(_, _, _, _, _)

\* SkipLine with a seeded fault: a line without `data:` ends an event, which is
\* delivered as an empty delta
SkipLine_AsEvent(v, seg, i, live, end) ==
  NextResult(<<Delta("", << >>, FALSE)>>, NilErr, FALSE, i + 1, i + 1, FALSE)

\* if line == "" { continue }; if !strings.HasPrefix(line, "data:") { continue }
SkipLine(v, seg, i, live, end) == NextLoop(v, seg, i + 1, live, end)

NextLoop(v, seg, i, live, end) ==
  IF i >= live THEN ContextDone(i)
  ELSE IF i = Len(seg)
    THEN IF end = "open" THEN Impossible
         ELSE IF end = "error"
           THEN NextResult(<< >>, ErrUnexpectedEOF, FALSE, i, i + 1, TRUE)
           ELSE EndOfInput(i)
  ELSE LET line == seg[i + 1]
           data == line.payload
       IN  IF line.prefix # "data:" THEN SkipLine(v, seg, i, live, end)
           ELSE IF data.raw = "[DONE]" THEN TerminalDelta(i + 1, i + 1, FALSE)
           ELSE IF Unmarshal(data) # NilErr
             THEN NextResult(<< >>, Unmarshal(data), FALSE, i + 1, i + 1, FALSE)
           ELSE IF v = "openai"
             THEN IF Len(data.choices) = 0
                    THEN NextLoop(v, seg, i + 1, live, end)
                    ELSE ChoiceDelta(data.choices[1], i + 1, i + 1)
             ELSE IF data.type = "content_block_delta"
               THEN IF data.delta # << >> /\ data.delta[1].type = "text_delta"
                       /\ data.delta[1].text # ""
                      THEN NextResult(<<Delta(data.delta[1].text, << >>, FALSE)>>,
                                      NilErr, FALSE, i + 1, i + 1, FALSE)
                      ELSE NextLoop(v, seg, i + 1, live, end)
               ELSE IF data.type = "message_stop"
                 THEN TerminalDelta(i + 1, i + 1, FALSE)
                 ELSE NextLoop(v, seg, i + 1, live, end)

\* the record of one Next call
NextEntry(seg, r) ==
  [ctx |-> streamCtx, read |-> seg, scans |-> r.scans, delta |-> r.delta,
   err |-> r.err, doneBefore |-> done, doneAfter |-> r.setsDone,
   closedBefore |-> closes > 0]

\* Next on a stream that is done
NextWhenDone ==
  /\ done
  /\ nextLog' = Append(nextLog,
       NextEntry(<< >>, NextResult(<<Delta("", << >>, TRUE)>>, NilErr, TRUE, 0, 0, FALSE)))
  /\ UNCHANGED <<vendor, body, bodyEnd, done, closes, streamCtx, closeLog>>

\* Next on a stream that is not done: the body delivers seg and then, when
\* the scanner asks for more, ends as `end` says; with cancelMid the context
\* is cancelled once the lines of seg are consumed
NextWhenOpen(v) ==
  /\ ~done
  /\ \E seg \in Segments(v, IF bodyEnd = "open" THEN MaxLines - Len(body) ELSE 0),
        end \in IF bodyEnd = "open" THEN {"open", "eof", "error"} ELSE {bodyEnd},
        cancelMid \in BOOLEAN :
       LET live == IF streamCtx # NilErr THEN 0
                   ELSE IF cancelMid THEN Len(seg) ELSE Len(seg) + 1
           r == NextLoop(v, seg, 0, live, end)
       IN  /\ r.possible
           /\ r.used = Len(seg)
           /\ r.atEnd <=> end # bodyEnd
           /\ cancelMid => (streamCtx = NilErr /\ seg # << >> /\ r.err = ContextCanceled)
           /\ body' = body \o seg
           /\ bodyEnd' = end
           /\ done' = r.setsDone
           /\ streamCtx' = IF cancelMid THEN ContextCanceled ELSE streamCtx
           /\ nextLog' = Append(nextLog, NextEntry(seg, r))
  /\ UNCHANGED <<vendor, closes, closeLog>>

\* the caller opens a stream of one of the vendors
InitStream ==
  /\ vendor \in {"openai", "anthropic"}
  /\ body = << >>
  /\ bodyEnd = "open"
  /\ done = FALSE
  /\ closes = 0
  /\ streamCtx = NilErr
  /\ nextLog = << >>
  /\ closeLog = << >>
  /\ first = NoFirst
  /\ AgentIdle
  /\ RetryIdle
  /\ SSEIdle
  /\ RunIdle
  /\ WrapIdle
  /\ RegistryIdle

\* chatStream.Next
ChatStreamNext ==
  /\ vendor = "openai"
  /\ Len(nextLog) < MaxNext
  /\ (NextWhenDone \/ NextWhenOpen("openai"))
  /\ UNCHANGED <<agentVars, first, retryVars, sseVars, runVars, wrapVars, regVars>>

\* messagesStream.Next
MessagesStreamNext ==
  /\ vendor = "anthropic"
  /\ Len(nextLog) < MaxNext
  /\ (NextWhenDone \/ NextWhenOpen("anthropic"))
  /\ UNCHANGED <<agentVars, first, retryVars, sseVars, runVars, wrapVars, regVars>>

\* the record of one Close call: s.done before and after it, and the calls
\* of s.body.Close() it made
CloseEntry(released) ==
  [doneBefore |-> done, doneAfter |-> done', released |-> released]

\* StreamClose with a seeded fault: a stream that is done is taken to be closed
StreamClose_UnlessDone ==
  /\ Len(closeLog) < MaxCloses
  /\ done' = TRUE
  /\ closes' = IF done THEN closes ELSE closes + 1
  /\ closeLog' = Append(closeLog, CloseEntry(closes' - closes))
  /\ UNCHANGED <<vendor, body, bodyEnd, streamCtx, nextLog>>
  /\ UNCHANGED <<agentVars, first, retryVars, sseVars, runVars, wrapVars, regVars>>

\* StreamClose with a seeded fault: the body is closed and s.done is left as
\* it is
StreamClose_BodyOnly ==
  /\ Len(closeLog) < MaxCloses
  /\ done' = done
  /\ closes' = closes + 1
  /\ closeLog' = Append(closeLog, CloseEntry(1))
  /\ UNCHANGED <<vendor, body, bodyEnd, streamCtx, nextLog>>
  /\ UNCHANGED <<agentVars, first, retryVars, sseVars, runVars, wrapVars, regVars>>

\* chatStream.Close and messagesStream.Close: s.done = true; s.body.Close()
StreamClose ==
  /\ Len(closeLog) < MaxCloses
  /\ done' = TRUE
  /\ closes' = closes + 1
  /\ closeLog' = Append(closeLog, CloseEntry(1))
  /\ UNCHANGED <<vendor, body, bodyEnd, streamCtx, nextLog>>
  /\ UNCHANGED <<agentVars, first, retryVars, sseVars, runVars, wrapVars, regVars>>

\* the caller cancels the context it passes to Next
CancelStreamContext ==
  /\ streamCtx = NilErr
  /\ streamCtx' = ContextCanceled
  /\ UNCHANGED <<vendor, body, bodyEnd, done, closes, nextLog, closeLog>>
  /\ UNCHANGED <<agentVars, first, retryVars, sseVars, runVars, wrapVars, regVars>>

NextStream ==
  \/ ChatStreamNext
  \/ MessagesStreamNext
  \/ StreamClose
  \/ CancelStreamContext

SpecStream == InitStream /\ [][NextStream]_vars

\* the caller goes on calling Next
SpecStreamFair ==
  SpecStream /\ WF_vars(ChatStreamNext) /\ WF_vars(MessagesStreamNext)

(***************************************************************************)
(* Vocabulary of the properties of the streams, read off nextLog.          *)
(***************************************************************************)
\* the Next call read the `[DONE]` sentinel as its last line
ReadSentinel(e) ==
  e.read # << >> /\ e.read[Len(e.read)] = DataLine(SentinelPayload)

\* the Next call returned a delta with Done = true
ReturnedDone(e) == e.err = NilErr /\ e.delta # << >> /\ e.delta[1].Done

\* the Next call returned the terminal delta without touching the source
TerminalWithoutReading(e) ==
  /\ e.err = NilErr
  /\ e.delta = <<Delta("", << >>, TRUE)>>
  /\ e.scans = 0
  /\ e.read = << >>

\* C20: a Next call that reads the `[DONE]` sentinel returns a delta with
\* Done = true and no error, and the stream is terminal from then on; every
\* Next call after a call that returned a Done = true delta returns a
\* Done = true delta without text and tool calls and without reading the
\* source, so no other delta follows the first Done = true delta.  For
\* chatStream and messagesStream alike.
C20_SentinelTerminal ==
  /\ \A i \in 1 .. Len(nextLog) : ReadSentinel(nextLog[i]) => ReturnedDone(nextLog[i])
  /\ (nextLog # << >> /\ ReturnedDone(nextLog[Len(nextLog)])) => done
  /\ \A i \in 1 .. Len(nextLog) :
       ReturnedDone(nextLog[i]) =>
         \A j \in (i + 1) .. Len(nextLog) : TerminalWithoutReading(nextLog[j])

\* a text delta, then the sentinel after a blank line, then two more Next
\* calls, the last with a cancelled context
C20_Witness ==
  /\ Len(nextLog) = 4
  /\ nextLog[1].delta # << >> /\ nextLog[1].delta[1].Text = "Hel"
  /\ Len(nextLog[2].read) = 2
  /\ ReadSentinel(nextLog[2])
  /\ ReturnedDone(nextLog[2])
  /\ TerminalWithoutReading(nextLog[3])
  /\ nextLog[4].ctx = ContextCanceled
  /\ TerminalWithoutReading(nextLog[4])
  /\ closes = 0

\* the Next call asked the scanner for a line and there was none
ScanFoundNoLine(e) == e.scans = Len(e.read) + 1

\* the line carries a terminal event: the sentinel, a chunk whose first
\* choice has a finish reason, or message_stop
IsTerminalEvent(v, l) ==
  /\ l.prefix = "data:"
  /\ \/ l.payload.raw = "[DONE]"
     \/ /\ l.payload.valid
        /\ IF v = "openai"
             THEN Len(l.payload.choices) > 0 /\ l.payload.choices[1].finish_reason # ""
             ELSE l.payload.type = "message_stop"

\* a Next call that finds the body at its end, the scanner reporting no
\* error, returns the terminal delta and no error, and Next does so from
\* then on
ExhaustionIsTerminal ==
  \A i \in 1 .. Len(nextLog) :
    (ScanFoundNoLine(nextLog[i]) /\ bodyEnd = "eof") =>
      /\ nextLog[i].err = NilErr
      /\ nextLog[i].delta = <<Delta("", << >>, TRUE)>>
      /\ \A j \in (i + 1) .. Len(nextLog) : TerminalWithoutReading(nextLog[j])

\* C21: end of input is a normal terminal condition.  A Next call that
\* finds the source exhausted (the scanner reporting no error) returns a
\* Done = true delta and no error, and a caller that goes on calling Next
\* with a live context on a body whose scanner reports no error is
\* eventually handed a Done = true delta, whether or not the body holds a
\* sentinel or an end-of-turn event.
C21_ExhaustionTerminates ==
  /\ []ExhaustionIsTerminal
  /\ <>(\/ streamCtx # NilErr
        \/ bodyEnd = "error"
        \/ \E i \in 1 .. Len(nextLog) : ReturnedDone(nextLog[i]))

\* a body of a text fragment, a malformed payload and a blank line, with no
\* terminal event: the third Next call reads the blank line, finds the end
\* of input and returns the terminal delta
C21_Witness ==
  /\ bodyEnd = "eof"
  /\ streamCtx = NilErr
  /\ closes = 0
  /\ Len(body) = 3
  /\ \A k \in 1 .. Len(body) : ~IsTerminalEvent(vendor, body[k])
  /\ Len(nextLog) = 3
  /\ nextLog[1].delta # << >>
  /\ nextLog[2].err = ErrJSONSyntax
  /\ nextLog[3].read = <<BlankLine>>
  /\ ScanFoundNoLine(nextLog[3])
  /\ ReturnedDone(nextLog[3])
  /\ done

\* the text fragment of the event a line carries: the content of the first
\* choice's delta of an OpenAI chunk, the text of an Anthropic text_delta
TextFragment(v, l) ==
  IF l.prefix # "data:" \/ ~l.payload.valid THEN ""
  ELSE IF v = "openai"
    THEN IF Len(l.payload.choices) = 0 THEN "" ELSE l.payload.choices[1].content
    ELSE IF l.payload.type = "content_block_delta" /\ l.payload.delta # << >>
            /\ l.payload.delta[1].type = "text_delta"
      THEN l.payload.delta[1].text
      ELSE ""

\* the text fragments of the lines, concatenated in order
RECURSIVE SourceText(_, _)
SourceText(v, lines) ==
  IF lines = << >> THEN ""
  ELSE TextFragment(v, Head(lines)) \o SourceText(v, Tail(lines))

\* the Text of the deltas that the Next calls returned, concatenated in order
RECURSIVE DeliveredText(_)
DeliveredText(log) ==
  IF log = << >> THEN ""
  ELSE (IF Head(log).delta = << >> THEN "" ELSE Head(log).delta[1].Text)
       \o DeliveredText(Tail(log))

\* the lines that the Next calls read, in order
RECURSIVE LinesRead(_)
LinesRead(log) ==
  IF log = << >> THEN << >> ELSE Head(log).read \o LinesRead(Tail(log))

\* C22: deltas are delivered in source order and their Text adds up to the
\* text of the source.  The Next calls read the body front to back without
\* a gap; after every Next call the Text of the deltas returned so far,
\* concatenated, is the concatenation of the text fragments of the events
\* read so far; and the delta of each call carries the text of the events
\* that this call read.  In particular this holds at the first Done = true
\* delta, after which nothing more is read.
C22_TextConcatenation ==
  /\ LinesRead(nextLog) = body
  /\ \A k \in 0 .. Len(nextLog) :
       DeliveredText(SubSeq(nextLog, 1, k)) = SourceText(vendor, LinesRead(SubSeq(nextLog, 1, k)))
  /\ \A i \in 1 .. Len(nextLog) :
       nextLog[i].delta # << >> =>
         nextLog[i].delta[1].Text = SourceText(vendor, nextLog[i].read)

\* the fragments "Hel" and "lo", the second with a finish reason: two deltas
\* whose Text concatenates to "Hello", the second with Done = true
C22_Witness ==
  /\ vendor = "openai"
  /\ Len(nextLog) = 2
  /\ nextLog[1].delta = <<Delta("Hel", <<ToolCall("call_1", "add", RawMessage("[1,"))>>, FALSE)>>
  /\ nextLog[2].delta = <<Delta("lo", << >>, TRUE)>>
  /\ SourceText(vendor, body) = "Hello"
  /\ DeliveredText(nextLog) = "Hello"
  /\ done

\* the last line the Next call read is a `data:` line whose payload is
\* neither the sentinel nor a JSON document
ReadMalformed(e) ==
  /\ e.read # << >>
  /\ e.read[Len(e.read)].prefix = "data:"
  /\ e.read[Len(e.read)].payload.raw # "[DONE]"
  /\ ~e.read[Len(e.read)].payload.valid

\* the Next call returned a delta for a `data:` line that it read
DeltaFromEvent(e) ==
  /\ e.err = NilErr
  /\ e.delta # << >>
  /\ e.read # << >>
  /\ e.read[Len(e.read)].prefix = "data:"

\* a Next call that reads a malformed payload returns the parse error and no
\* delta, and reads nothing after the malformed line
ParseErrorReturnedAtOnce ==
  \A i \in 1 .. Len(nextLog) :
    ReadMalformed(nextLog[i]) =>
      /\ nextLog[i].err = ErrJSONSyntax
      /\ nextLog[i].delta = << >>
      /\ nextLog[i].scans = Len(nextLog[i].read)

\* C23: a malformed payload is fatal.  The Next call that reads it returns
\* the parse error at once, and no Next call on the same stream, that one
\* or a later one, returns a delta built from an event behind the malformed
\* one.
C23_MalformedIsFatal ==
  /\ ParseErrorReturnedAtOnce
  /\ \A i \in 1 .. Len(nextLog) :
       ReadMalformed(nextLog[i]) =>
         \A j \in (i + 1) .. Len(nextLog) : ~DeltaFromEvent(nextLog[j])

\* the Next call returned the error of its context, no delta, and did not
\* touch the source
CancelledWithoutReading(e) ==
  /\ e.err = e.ctx
  /\ e.err # NilErr
  /\ e.delta = << >>
  /\ e.scans = 0
  /\ e.read = << >>

\* C24 as stated: a Next call whose context is already cancelled returns the
\* cancellation error without reading and without a delta, whatever the
\* state of the stream, a terminal stream included.
C24_CancelledInEveryState ==
  \A i \in 1 .. Len(nextLog) :
    nextLog[i].ctx # NilErr => CancelledWithoutReading(nextLog[i])

\* C24 amended: a Next call whose context is already cancelled returns the
\* cancellation error without reading and without a delta when the stream is
\* not terminal (fresh or partly consumed); on a terminal stream (after a
\* Done = true delta or after Close) it returns the terminal delta and no
\* error, also without reading.
C24_CancelledUnlessTerminal ==
  \A i \in 1 .. Len(nextLog) :
    nextLog[i].ctx # NilErr =>
      IF nextLog[i].doneBefore
        THEN TerminalWithoutReading(nextLog[i])
        ELSE CancelledWithoutReading(nextLog[i])

\* a fresh stream yields a text delta, the context is cancelled, the next
\* two calls on the partly consumed stream return the cancellation error,
\* and after Close the fourth call returns the terminal delta
C24_Witness ==
  /\ Len(nextLog) = 4
  /\ nextLog[1].ctx = NilErr /\ nextLog[1].delta # << >> /\ ~nextLog[1].delta[1].Done
  /\ nextLog[2].ctx = ContextCanceled /\ ~nextLog[2].doneBefore
  /\ CancelledWithoutReading(nextLog[2])
  /\ CancelledWithoutReading(nextLog[3])
  /\ nextLog[4].ctx = ContextCanceled /\ nextLog[4].doneBefore
  /\ TerminalWithoutReading(nextLog[4])
  /\ Len(body) = 1

\* C25: Close may be called any number of times and in any state of the
\* stream; every call calls Close on the body; the first call leaves the
\* stream done, every later call finds it done and leaves it so; and a Next
\* call after a Close returns the terminal delta without touching the body.
C25_CloseIdempotent ==
  /\ closes = Len(closeLog)
  /\ \A i \in 1 .. Len(closeLog) :
       /\ closeLog[i].released = 1
       /\ closeLog[i].doneAfter
       /\ i > 1 => closeLog[i].doneBefore
  /\ closeLog # << >> => done
  /\ \A j \in 1 .. Len(nextLog) :
       nextLog[j].closedBefore => TerminalWithoutReading(nextLog[j])

\* Close after a Next call that failed on a partly read body, a Next call
\* that finds the stream terminal, and a second Close
C25_Witness ==
  /\ Len(closeLog) = 2
  /\ closes = 2
  /\ Len(nextLog) = 3
  /\ nextLog[1].delta # << >>
  /\ nextLog[2].err = ErrJSONSyntax
  /\ ~nextLog[2].closedBefore
  /\ ~closeLog[1].doneBefore
  /\ nextLog[3].closedBefore
  /\ closeLog[2].doneBefore
  /\ bodyEnd = "open"

\* the last line the Next call read carries a terminal event
ReadTerminalEvent(e) ==
  e.read # << >> /\ IsTerminalEvent(vendor, e.read[Len(e.read)])

\* C26: a Next call on a stream that is not yet terminal returns a
\* Done = true delta exactly when the line it stopped at carries the
\* sentinel or an end-of-turn event (a finish reason in the first choice of
\* an OpenAI chunk, message_stop for Anthropic), or when it found the source
\* exhausted; the stream is terminal after exactly these calls, and no line
\* the call passed over carries a terminal event.
C26_DoneExactlyWhenTerminal ==
  \A i \in 1 .. Len(nextLog) :
    LET e == nextLog[i]
    IN  ~e.doneBefore =>
          /\ ReturnedDone(e) <=>
               \/ ReadTerminalEvent(e)
               \/ ScanFoundNoLine(e) /\ e.err = NilErr
          /\ e.doneAfter <=> ReturnedDone(e)
          /\ \A k \in 1 .. Len(e.read) - 1 : ~IsTerminalEvent(vendor, e.read[k])
          /\ ~(ReadTerminalEvent(e) /\ ScanFoundNoLine(e))

\* an Anthropic stream: a text delta with Done = false leaves the stream
\* open, the next call passes over a tool-input delta, stops at message_stop
\* and returns Done = true
C26_Witness ==
  /\ vendor = "anthropic"
  /\ Len(nextLog) = 2
  /\ nextLog[1].delta = <<Delta("Hel", << >>, FALSE)>>
  /\ ~nextLog[1].doneAfter
  /\ Len(nextLog[2].read) = 2
  /\ nextLog[2].read[2] = DataLine(StreamEvent("message_stop", << >>))
  /\ ~nextLog[2].doneBefore
  /\ ReturnedDone(nextLog[2])
  /\ nextLog[2].doneAfter
  /\ closeLog = << >>

\* a tool-call fragment: id, name and partial arguments
Fragment(id, name, arguments) == [id |-> id, name |-> name, arguments |-> arguments]

\* the fragments among the entries of a chunk's tool_calls: the first
\* fragment of a call has type "function", a continuation has no type
ChunkFragments(tcs) ==
  [k \in 1 .. Len(tcs) |-> Fragment(tcs[k].id, tcs[k].name, tcs[k].arguments)]

\* the tool-call fragments of the event a line carries
EventFragments(v, l) ==
  IF l.prefix # "data:" \/ ~l.payload.valid THEN << >>
  ELSE IF v = "openai"
    THEN IF Len(l.payload.choices) = 0 THEN << >>
         ELSE ChunkFragments(l.payload.choices[1].tool_calls)
    ELSE IF l.payload.type = "content_block_delta" /\ l.payload.delta # << >>
            /\ l.payload.delta[1].type = "input_json_delta"
      THEN <<Fragment("", "", l.payload.delta[1].partial_json)>>
      ELSE << >>

\* the fragments of the events of the lines, in order
RECURSIVE SourceFragments(_, _)
SourceFragments(v, lines) ==
  IF lines = << >> THEN << >>
  ELSE EventFragments(v, Head(lines)) \o SourceFragments(v, Tail(lines))

\* the fragments a delta's ToolCalls carry: RawArguments holds the raw JSON
\* of the arguments field
DeliveredFragments(e) ==
  IF e.delta = << >> THEN << >>
  ELSE [k \in 1 .. Len(e.delta[1].ToolCalls) |->
         e.delta[1].ToolCalls[k]]

\* the first fragments of OpenAI function tool calls are carried in order,
\* with id, name and arguments
FirstFragmentsCarried ==
  \A i \in 1 .. Len(nextLog) :
    LET firsts == SelectSeq(SourceFragments(vendor, nextLog[i].read),
                            LAMBDA f : f.id # "")
    IN  (vendor = "openai" /\ nextLog[i].err = NilErr) =>
          DeliveredFragments(nextLog[i]) =
            [k \in 1 .. Len(firsts) |->
               ToolCall(firsts[k].id, firsts[k].name, RawMessage(firsts[k].arguments))]

\* C27: every tool-call fragment of the events a Next call read is carried,
\* in order and with its id, name and partial arguments, in the ToolCalls of
\* the delta the call returned: for chatStream and messagesStream, for first
\* and for continuation fragments.
C27_ToolCallFragmentsCarried ==
  \A i \in 1 .. Len(nextLog) :
    LET frags == SourceFragments(vendor, nextLog[i].read)
    IN  nextLog[i].err = NilErr =>
          DeliveredFragments(nextLog[i]) =
            [k \in 1 .. Len(frags) |->
               ToolCall(frags[k].id, frags[k].name, RawMessage(frags[k].arguments))]

\* protocol noise: a blank line, or a line that does not begin with `data:`
IsNoise(l) == l.prefix # "data:"

\* the lines without the noise
StripNoise(lines) == SelectSeq(lines, LAMBDA l : ~IsNoise(l))

\* what the Next calls returned: delta and error of each
Returned(log) == [i \in 1 .. Len(log) |-> <<log[i].delta, log[i].err>>]

\* the Next call found its context cancelled after it had read lines
CancelledWhileReading(e) == e.ctx = NilErr /\ e.err = ContextCanceled

\* what Next returns on a body of the given lines (ended as `end` says) to a
\* caller that makes the calls of `log`: each with the context, and on a
\* stream opened or closed, as that call of the log found them
RECURSIVE Drain(_, _, _, _, _)
Drain(v, lines, end, isDone, log) ==
  IF log = << >> THEN << >>
  ELSE LET e == Head(log)
           r == IF isDone \/ e.closedBefore
                  THEN NextResult(<<Delta("", << >>, TRUE)>>, NilErr, TRUE, 0, 0, FALSE)
                  ELSE NextLoop(v, lines, 0,
                                IF e.ctx # NilErr THEN 0 ELSE Len(lines) + 1, end)
       IN  IF ~r.possible THEN << >>
           ELSE <<<<r.delta, r.err>>>>
                \o Drain(v, SubSeq(lines, r.used + 1, Len(lines)), end,
                         r.setsDone \/ isDone \/ e.closedBefore, Tail(log))

\* C28: blank lines and lines that do not begin with `data:` are noise.
\* The deltas and errors that the Next calls return on a body are those the
\* same calls (each with the same context, before or after the same Close)
\* return on the body without its noise lines; so two bodies that differ
\* only in noise lines, inserted anywhere and in any number, give the same
\* deltas and errors.  The context is taken not to change while a Next
\* call is reading.
C28_NoiseIgnored ==
  (\A i \in 1 .. Len(nextLog) : ~CancelledWhileReading(nextLog[i])) =>
    Returned(nextLog) = Drain(vendor, StripNoise(body), bodyEnd, FALSE, nextLog)

\* a blank line before the first event, a line of another field after it
\* and the end of input: the two deltas of the body with the one event
C28_Witness ==
  /\ vendor = "openai"
  /\ Len(body) = 3
  /\ body[1] = BlankLine
  /\ body[3] = EventLine
  /\ Len(StripNoise(body)) = 1
  /\ bodyEnd = "eof"
  /\ Len(nextLog) = 2
  /\ nextLog[1].read = SubSeq(body, 1, 2)
  /\ nextLog[1].delta # << >> /\ nextLog[1].delta[1].Text = "Hel"
  /\ nextLog[2].read = <<EventLine>>
  /\ ReturnedDone(nextLog[2])
  /\ Returned(nextLog) = Drain(vendor, StripNoise(body), bodyEnd, FALSE, nextLog)

(***************************************************************************)
(* WriteTextStreamAsSSE(ctx, w, stream): the stream is a chatStream or a   *)
(* messagesStream as modelled above, handed over unread; ctx is the context *)
(* passed on to its Next; w is an http.ResponseWriter whose Write may fail. *)
(***************************************************************************)
\* fmt.Fprintf(w, "data: %s\n\n", delta.Text)
FormatEvent(text) == "data: " \o text \o "\n\n"

\* fmt.Fprint(w, "data: [DONE]\n\n")
DoneMarker == "data: [DONE]\n\n"

\* the headers set before the loop
SSEHeaders ==
  { <<"Content-Type", "text/event-stream">>,
    <<"Cache-Control", "no-cache">>,
    <<"Connection", "keep-alive">> }

\* one write to w and, if it succeeded and w is a Flusher, the Flush after it
Write(rw, event, err) ==
  [rw EXCEPT !.writes = Append(@, [event |-> event, err |-> err]),
             !.flushes = IF err = NilErr /\ flusher THEN @ + 1 ELSE @]

\* the call begins: the stream is unread, the context live
InitSSE ==
  /\ vendor \in {"openai", "anthropic"}
  /\ body = << >>
  /\ bodyEnd = "open"
  /\ done = FALSE
  /\ closes = 0
  /\ streamCtx = NilErr
  /\ nextLog = << >>
  /\ closeLog = << >>
  /\ spc = "start"
  /\ w = [Header |-> {}, writes |-> << >>, flushes |-> 0]
  /\ flusher \in BOOLEAN
  /\ sseErr = NilErr
  /\ first = NoFirst
  /\ AgentIdle
  /\ RetryIdle
  /\ RunIdle
  /\ WrapIdle
  /\ RegistryIdle

\* defer stream.Close(); the three h.Set; flusher, _ := w.(http.Flusher)
SSEStart ==
  /\ spc = "start"
  /\ w' = [w EXCEPT !.Header = SSEHeaders]
  /\ spc' = "check"
  /\ UNCHANGED <<flusher, sseErr, streamVars>>
  /\ UNCHANGED <<agentVars, first, retryVars, runVars, wrapVars, regVars>>

\* if err := ctx.Err(); err != nil { return err }
SSECheckContext ==
  /\ spc = "check"
  /\ IF streamCtx # NilErr
       THEN sseErr' = streamCtx /\ spc' = "exit"
       ELSE sseErr' = sseErr /\ spc' = "next"
  /\ UNCHANGED <<w, flusher, streamVars>>
  /\ UNCHANGED <<agentVars, first, retryVars, runVars, wrapVars, regVars>>

\* the rest of an iteration, from `if delta.Done` to the Flush
SSEDelta(delta) ==
  IF delta.Done THEN spc' = "final" /\ UNCHANGED <<w, sseErr>>
  ELSE IF delta.Text = "" THEN spc' = "check" /\ UNCHANGED <<w, sseErr>>
  ELSE \E err \in WriteOutcomes :
         /\ w' = Write(w, FormatEvent(delta.Text), err)
         /\ sseErr' = err
         /\ spc' = IF err # NilErr THEN "exit" ELSE "check"

\* delta, err := stream.Next(ctx) and what the iteration does with it (the
\* stream was handed over unread, so it is done only once the loop is left)
SSENext ==
  /\ spc = "next"
  /\ (NextWhenDone \/ NextWhenOpen(vendor))
  /\ LET e == nextLog'[Len(nextLog')]
     IN  IF e.err # NilErr
           THEN sseErr' = e.err /\ spc' = "exit" /\ w' = w
           ELSE SSEDelta(e.delta[1])
  /\ UNCHANGED flusher
  /\ UNCHANGED <<agentVars, first, retryVars, runVars, wrapVars, regVars>>

\* after the loop: the final marker, its Flush, return nil
SSEFinal ==
  /\ spc = "final"
  /\ \E err \in WriteOutcomes :
       /\ w' = Write(w, DoneMarker, err)
       /\ sseErr' = err
  /\ spc' = "exit"
  /\ UNCHANGED <<flusher, streamVars>>
  /\ UNCHANGED <<agentVars, first, retryVars, runVars, wrapVars, regVars>>

\* SSEReturn with a seeded fault: the stream is closed only when the call fails
SSEReturn_CloseOnError ==
  /\ spc = "exit"
  /\ spc' = "returned"
  /\ IF sseErr # NilErr
       THEN /\ done' = TRUE
            /\ closes' = closes + 1
            /\ closeLog' = Append(closeLog, CloseEntry(1))
       ELSE UNCHANGED <<done, closes, closeLog>>
  /\ UNCHANGED <<vendor, body, bodyEnd, streamCtx, nextLog>>
  /\ UNCHANGED <<w, flusher, sseErr>>
  /\ UNCHANGED <<agentVars, first, retryVars, runVars, wrapVars, regVars>>

\* the return: the deferred stream.Close() runs
SSEReturn ==
  /\ spc = "exit"
  /\ spc' = "returned"
  /\ done' = TRUE
  /\ closes' = closes + 1
  /\ closeLog' = Append(closeLog, CloseEntry(1))
  /\ UNCHANGED <<vendor, body, bodyEnd, streamCtx, nextLog>>
  /\ UNCHANGED <<w, flusher, sseErr>>
  /\ UNCHANGED <<agentVars, first, retryVars, runVars, wrapVars, regVars>>

\* the request's context is cancelled while the call runs
SSECancel ==
  /\ spc \in {"start", "check", "next", "final", "exit"}
  /\ streamCtx = NilErr
  /\ streamCtx' = ContextCanceled
  /\ UNCHANGED <<vendor, body, bodyEnd, done, closes, nextLog, closeLog>>
  /\ UNCHANGED sseVars
  /\ UNCHANGED <<agentVars, first, retryVars, runVars, wrapVars, regVars>>

NextSSE ==
  \/ SSEStart
  \/ SSECheckContext
  \/ SSENext
  \/ SSEFinal
  \/ SSEReturn
  \/ SSECancel

SpecSSE == InitSSE /\ [][NextSSE]_vars

(***************************************************************************)
(* Vocabulary of the properties of WriteTextStreamAsSSE.                   *)
(***************************************************************************)
\* the text fragments of the vendors' events
DeltaTexts == {"Hel", "lo"}

\* the payload of a `data:` event, as a client reads it back
EventPayload(event) == CHOOSE t \in DeltaTexts \cup {"[DONE]"} : FormatEvent(t) = event

\* the payloads of the events written, in order, the final marker left out
RECURSIVE WrittenPayloads(_)
WrittenPayloads(writes) ==
  IF writes = << >> THEN << >>
  ELSE (IF Head(writes).err = NilErr /\ Head(writes).event # DoneMarker
          THEN <<EventPayload(Head(writes).event)>>
          ELSE << >>)
       \o WrittenPayloads(Tail(writes))

\* the non-empty Text values of the deltas the stream returned, in order;
\* withDone: the Done = true delta counts
RECURSIVE StreamTexts(_, _)
StreamTexts(log, withDone) ==
  IF log = << >> THEN << >>
  ELSE (IF /\ Head(log).delta # << >>
           /\ Head(log).delta[1].Text # ""
           /\ (withDone \/ ~Head(log).delta[1].Done)
          THEN <<Head(log).delta[1].Text>>
          ELSE << >>)
       \o StreamTexts(Tail(log), withDone)

\* the strings of a sequence, concatenated
RECURSIVE Concat(_)
Concat(strs) == IF strs = << >> THEN "" ELSE Head(strs) \o Concat(Tail(strs))

\* no write to w has failed, and the call is not in the middle of an iteration
BetweenIterations ==
  /\ spc \in {"check", "final", "exit", "returned"}
  /\ \A k \in 1 .. Len(w.writes) : w.writes[k].err = NilErr

\* every non-empty Text of a delta with Done = false is written as its own
\* event, in stream order
TextBeforeDoneWritten ==
  BetweenIterations => WrittenPayloads(w.writes) = StreamTexts(nextLog, FALSE)

\* C29: as long as no write fails, the events written carry, one by one
\* and in stream order, the non-empty Text values of the deltas the stream
\* has returned, that of the Done = true delta included, so that the
\* payloads written concatenate to the Text of all deltas.
C29_SSECarriesAllText ==
  BetweenIterations =>
    /\ WrittenPayloads(w.writes) = StreamTexts(nextLog, TRUE)
    /\ Concat(WrittenPayloads(w.writes)) = DeliveredText(nextLog)

\* the places of the final marker among the writes
MarkerWrites == {k \in 1 .. Len(w.writes) : w.writes[k].event = DoneMarker}

\* the stream has returned a Done = true delta
DoneReceived == nextLog # << >> /\ ReturnedDone(nextLog[Len(nextLog)])

\* the call has left its loop
LoopLeft == spc \in {"final", "exit", "returned"}

\* the stream is closed once, when the call returns, whatever it returns
ClosedOnReturn ==
  /\ spc # "returned" => closeLog = << >> /\ closes = 0
  /\ spc = "returned" =>
       /\ Len(closeLog) = 1 /\ closes = 1 /\ done

\* Next is not called again after a Done = true delta, after an error of
\* Next, after a failed write, or with a context that a call of Next has
\* been given cancelled
NextCallsStop ==
  /\ \A i \in 1 .. Len(nextLog) - 1 :
       /\ nextLog[i].err = NilErr
       /\ ~ReturnedDone(nextLog[i])
       /\ nextLog[i].ctx = NilErr
  /\ (nextLog # << >> /\ (nextLog[Len(nextLog)].err # NilErr \/ DoneReceived)) => LoopLeft
  /\ (\E k \in 1 .. Len(w.writes) : w.writes[k].err # NilErr) =>
       /\ spc \in {"exit", "returned"}
       /\ w.writes[Len(w.writes)].err = sseErr
       /\ \A k \in 1 .. Len(w.writes) - 1 : w.writes[k].err = NilErr

\* the final marker is written once, as the last write, exactly in the
\* calls that received a Done = true delta; and a call returns nil exactly
\* when that write succeeded
MarkerOnceAndLast ==
  /\ Cardinality(MarkerWrites) <= 1
  /\ MarkerWrites \subseteq {Len(w.writes)}
  /\ MarkerWrites # {} => DoneReceived /\ spc \in {"exit", "returned"}
  /\ (DoneReceived /\ spc \in {"exit", "returned"}) => MarkerWrites # {}
  /\ spc = "returned" =>
       (sseErr = NilErr <=> (MarkerWrites # {} /\ w.writes[Len(w.writes)].err = NilErr))

\* a test of ctx.Err() that finds the context cancelled ends the loop
\* without a call of Next
CancelledCheckReturns ==
  (spc = "check" /\ streamCtx # NilErr) =>
    /\ spc' = "exit"
    /\ sseErr' = streamCtx
    /\ nextLog' = nextLog
    /\ w' = w

\* C30: WriteTextStreamAsSSE closes the stream on every exit path (once,
\* at return); it does not call Next again after a Done = true delta, after
\* an error, or once it has found the context cancelled; and it writes the
\* final `data: [DONE]` marker exactly once, as its last write, in exactly
\* the runs that received a Done = true delta.
C30_SSEClosesAndStops ==
  /\ [](ClosedOnReturn /\ NextCallsStop /\ MarkerOnceAndLast)
  /\ [][CancelledCheckReturns]_vars

\* a text delta is written, the stream ends, the marker is written as the
\* second and last event, and the stream is closed at return
C30_Witness ==
  /\ spc = "returned"
  /\ sseErr = NilErr
  /\ Len(nextLog) = 2
  /\ DoneReceived
  /\ w.writes = <<[event |-> FormatEvent("Hel"), err |-> NilErr],
                  [event |-> DoneMarker, err |-> NilErr]>>
  /\ w.Header = SSEHeaders
  /\ flusher /\ w.flushes = 2
  /\ closes = 1
  /\ done


(***************************************************************************)
(* WriteRunAsSSE: the agent run streamed as Server-Sent Events.  Position  *)
(* wpc: "start" before the type assertion, "run" inside RunWithEvents,     *)
(* "returned" after a return.                                              *)
(***************************************************************************)
\* the configurations of the streamed runs: those that allow one tool batch,
\* the invalid ones among them
RunConfigs == { c \in Configs : c.MaxSteps = 1 }

\* the arguments of one call: a configuration and messages, a writer that is
\* or is not a Flusher, a live context
InitRunSSE ==
  /\ cfg \in RunConfigs
  /\ initialMessages = <<Message(RoleUser, "2+3?")>>
  /\ emit = TRUE
  /\ pc = "idle"
  /\ messages = << >>
  /\ steps = 0
  /\ maxSteps = 0
  /\ res = NoResponse
  /\ idx = 0
  /\ retResult = << >>
  /\ retErr = NilErr
  /\ events = << >>
  /\ genLog = << >>
  /\ execLog = << >>
  /\ wpc = "start"
  /\ resp \in { [Header |-> {}, writes |-> << >>, flushes |-> 0, flusher |-> f,
                  broken |-> FALSE] : f \in BOOLEAN }
  /\ runCtx = NilErr
  /\ runRet = << >>
  /\ first = NoFirst
  /\ RetryIdle
  /\ StreamIdle
  /\ SSEIdle
  /\ WrapIdle
  /\ RegistryIdle

ErrNoFlusher == Err("*errors.errorString", "agent: response writer does not support flushing")

\* w.(http.Flusher) fails: return nil, fmt.Errorf(...)
WriteRunNoFlusher ==
  /\ wpc = "start"
  /\ ~resp.flusher
  /\ wpc' = "returned"
  /\ runRet' = <<[res |-> << >>, err |-> ErrNoFlusher]>>
  /\ UNCHANGED <<resp, runCtx>>
  /\ UNCHANGED <<agentVars, first, retryVars, streamVars, sseVars, wrapVars, regVars>>

\* the three Header().Set, the encoder, the closure, and the call of
\* RunWithEvents with it
WriteRunStart ==
  /\ wpc = "start"
  /\ resp.flusher
  /\ resp' = [resp EXCEPT !.Header = SSEHeaders]
  /\ wpc' = "run"
  /\ pc' = "start"
  /\ UNCHANGED <<runCtx, runRet>>
  /\ UNCHANGED <<cfg, initialMessages, emit, messages, steps, maxSteps, res, idx,
                 retResult, retErr, events, genLog, execLog>>
  /\ UNCHANGED <<first, retryVars, streamVars, sseVars, wrapVars, regVars>>

\* RunWithEvents returned an error: return nil, err
WriteRunFails ==
  /\ wpc = "run"
  /\ pc = "returned"
  /\ retErr # NilErr
  /\ wpc' = "returned"
  /\ runRet' = <<[res |-> << >>, err |-> retErr]>>
  /\ UNCHANGED <<resp, runCtx>>
  /\ UNCHANGED <<agentVars, first, retryVars, streamVars, sseVars, wrapVars, regVars>>

\* RunWithEvents returned a result: encoder.Encode(Event{Type: done}), whose
\* error is dropped, writes the JSON text and a newline; Flush; return res, nil
WriteRunDone ==
  /\ wpc = "run"
  /\ pc = "returned"
  /\ retErr = NilErr
  /\ resp' = [WriteBytes(resp, Marshal(Event(EventTypeDone, 0, "", "", "")) \o "\n")
               EXCEPT !.flushes = @ + 1]
  /\ wpc' = "returned"
  /\ runRet' = <<[res |-> retResult, err |-> NilErr]>>
  /\ UNCHANGED runCtx
  /\ UNCHANGED <<agentVars, first, retryVars, streamVars, sseVars, wrapVars, regVars>>

\* the request's context is cancelled while the call runs
WriteRunCancel ==
  /\ wpc \in {"start", "run"}
  /\ runCtx = NilErr
  /\ runCtx' = ContextCanceled
  /\ UNCHANGED <<wpc, resp, runRet>>
  /\ UNCHANGED <<agentVars, first, retryVars, streamVars, sseVars, wrapVars, regVars>>

\* the client leaves: from now on a Write fails
WriteRunClientLeaves ==
  /\ wpc \in {"start", "run"}
  /\ ~resp.broken
  /\ resp' = [resp EXCEPT !.broken = TRUE]
  /\ UNCHANGED <<wpc, runCtx, runRet>>
  /\ UNCHANGED <<agentVars, first, retryVars, streamVars, sseVars, wrapVars, regVars>>

\* the steps of RunWithEvents happen inside the call
RunWithEventsStep == wpc = "run" /\ Next

NextRunSSE ==
  \/ WriteRunNoFlusher
  \/ WriteRunStart
  \/ RunWithEventsStep
  \/ WriteRunFails
  \/ WriteRunDone
  \/ WriteRunCancel
  \/ WriteRunClientLeaves

SpecRunSSE == InitRunSSE /\ [][NextRunSSE]_vars

\* the events of a run: those handed to the emitter, and the done event that
\* WriteRunAsSSE adds
RunEvents ==
  { events[i] : i \in 1 .. Len(events) } \cup {Event(EventTypeDone, 0, "", "", "")}

\* a write is one event as a JSON object in the framing "data: <json>\n\n"
IsFramedEvent(bytes) ==
  \E e \in RunEvents : bytes = "data: " \o Marshal(e) \o "\n\n"

\* the write of the done event that follows a successful run has happened
FinalDoneWritten ==
  /\ wpc = "returned"
  /\ runRet[1].err = NilErr
  /\ Len(resp.writes) >= 1

\* C31: every event WriteRunAsSSE writes to the response, the final done
\* event after a successful run included, is a single JSON object in the
\* framing "data: <json>\n\n", and the function returns only when the agent
\* run has completed or failed.
C31_EveryEventFramed ==
  /\ \A i \in 1 .. Len(resp.writes) : IsFramedEvent(resp.writes[i])
  /\ (wpc = "returned" /\ resp.flusher) => pc = "returned"

\* what does hold: the writes of the emit closure, which are all the writes
\* but the one WriteRunAsSSE makes itself after a successful run, are framed
EmitterWritesFramed ==
  \A i \in 1 .. Len(resp.writes) :
    (i < Len(resp.writes) \/ wpc # "returned") => IsFramedEvent(resp.writes[i])

(***************************************************************************)
(* WrapLanguageModel (package middleware), and one call of Generate or     *)
(* Stream on the model it returns.  The middlewares of the model are       *)
(* logging middlewares, LoggingLanguageModel with every option set, each   *)
(* with a Logger of its own; the log lines tell the order in which the     *)
(* layers are entered and left.  Position call.pc: "wrap" in the loop of   *)
(* WrapLanguageModel, "ready" after its return, "calling" while the call   *)
(* descends, "returning" while it comes back, "returned" at the caller.    *)
(***************************************************************************)
\* most middlewares given to WrapLanguageModel
MaxMiddlewares == 2

\* the Loggers that tell the middlewares apart
Loggers == {"A", "B", "C"}

\* the base model, and the loggingLanguageModel that the middleware with the
\* given Logger returns for next
BaseModel == [name |-> "base"]
LoggingLanguageModel(logger, next) == [logger |-> logger, next |-> next]
IsLogging(m) == "next" \in DOMAIN m

MiddlewareLists == UNION { [1 .. n -> Loggers] : n \in 0 .. MaxMiddlewares }

\* the outcomes of the base model: a response (or a stream), or an error
BaseErrors == {NilErr, Err("*errors.errorString", "model unavailable")}

NoCall == [pc |-> "wrap", method |-> "", cur |-> << >>, stack |-> << >>, err |-> NilErr]

\* a line of a Logger: who wrote it, and the text up to the model name
LogLine(logger, meth, what) ==
  [logger |-> logger,
   text |-> IF meth = "Generate"
              THEN "lm.generate " \o what
              ELSE "lm.stream " \o (IF what = "success" THEN "established" ELSE what)]

\* the base model was called
BaseLine(meth) == [logger |-> "", text |-> meth]

\* wrapped := base; i := len(mws) - 1
InitWrap ==
  /\ mws \in MiddlewareLists
  /\ wrapped = BaseModel
  /\ wrapI = Len(mws) - 1
  /\ call = NoCall
  /\ lmLog = << >>
  /\ first = NoFirst
  /\ AgentIdle
  /\ RetryIdle
  /\ StreamIdle
  /\ SSEIdle
  /\ RunIdle
  /\ RegistryIdle

\* a seeded fault: the loop runs over mws from the first to the last
WrapIterate_FirstInnermost ==
  /\ call.pc = "wrap"
  /\ wrapI >= 0
  /\ wrapped' = LoggingLanguageModel(mws[Len(mws) - wrapI], wrapped)
  /\ wrapI' = wrapI - 1
  /\ UNCHANGED <<mws, call, lmLog>>
  /\ UNCHANGED <<agentVars, first, retryVars, streamVars, sseVars, runVars, regVars>>

\* one iteration of the loop: wrapped = mws[i](wrapped); i--  (mws[i] of the
\* code is mws[i + 1] here: sequences start at 1)
WrapIterate ==
  /\ call.pc = "wrap"
  /\ wrapI >= 0
  /\ wrapped' = LoggingLanguageModel(mws[wrapI + 1], wrapped)
  /\ wrapI' = wrapI - 1
  /\ UNCHANGED <<mws, call, lmLog>>
  /\ UNCHANGED <<agentVars, first, retryVars, streamVars, sseVars, runVars, regVars>>

\* the loop is over: return wrapped
WrapReturn ==
  /\ call.pc = "wrap"
  /\ wrapI < 0
  /\ call' = [call EXCEPT !.pc = "ready"]
  /\ UNCHANGED <<mws, wrapped, wrapI, lmLog>>
  /\ UNCHANGED <<agentVars, first, retryVars, streamVars, sseVars, runVars, regVars>>

\* the caller calls Generate or Stream on the model it got
CallWrapped ==
  /\ call.pc = "ready"
  /\ \E m \in {"Generate", "Stream"} :
       call' = [call EXCEPT !.pc = "calling", !.method = m, !.cur = wrapped]
  /\ UNCHANGED <<mws, wrapped, wrapI, lmLog>>
  /\ UNCHANGED <<agentVars, first, retryVars, streamVars, sseVars, runVars, regVars>>

\* loggingLanguageModel.Generate / Stream up to the call of l.next
LoggingEnter ==
  /\ call.pc = "calling"
  /\ IsLogging(call.cur)
  /\ lmLog' = Append(lmLog, LogLine(call.cur.logger, call.method, "start"))
  /\ call' = [call EXCEPT !.cur = call.cur.next,
                          !.stack = Append(@, call.cur.logger)]
  /\ UNCHANGED <<mws, wrapped, wrapI>>
  /\ UNCHANGED <<agentVars, first, retryVars, streamVars, sseVars, runVars, regVars>>

\* the base model's Generate / Stream
BaseCalled ==
  /\ call.pc = "calling"
  /\ ~IsLogging(call.cur)
  /\ lmLog' = Append(lmLog, BaseLine(call.method))
  /\ \E e \in BaseErrors : call' = [call EXCEPT !.pc = "returning", !.err = e]
  /\ UNCHANGED <<mws, wrapped, wrapI>>
  /\ UNCHANGED <<agentVars, first, retryVars, streamVars, sseVars, runVars, regVars>>

\* loggingLanguageModel.Generate / Stream after l.next returned: the error
\* or the result is logged and passed on
LoggingExit ==
  /\ call.pc = "returning"
  /\ Len(call.stack) > 0
  /\ LET l == call.stack[Len(call.stack)]
     IN  /\ lmLog' = Append(lmLog, LogLine(l, call.method,
                                           IF call.err # NilErr THEN "error" ELSE "success"))
         /\ call' = [call EXCEPT !.stack = SubSeq(@, 1, Len(@) - 1)]
  /\ UNCHANGED <<mws, wrapped, wrapI>>
  /\ UNCHANGED <<agentVars, first, retryVars, streamVars, sseVars, runVars, regVars>>

\* the outermost layer has returned to the caller
CallReturns ==
  /\ call.pc = "returning"
  /\ Len(call.stack) = 0
  /\ call' = [call EXCEPT !.pc = "returned"]
  /\ UNCHANGED <<mws, wrapped, wrapI, lmLog>>
  /\ UNCHANGED <<agentVars, first, retryVars, streamVars, sseVars, runVars, regVars>>

NextWrap ==
  \/ WrapIterate
  \/ WrapReturn
  \/ CallWrapped
  \/ LoggingEnter
  \/ BaseCalled
  \/ LoggingExit
  \/ CallReturns

SpecWrap == InitWrap /\ [][NextWrap]_vars

\* the order the statement asks for: line j is the start line of mws[j], then
\* comes the base model, then the lines of the way back, that of mws[j] being
\* the j-th from the end; they tell the outcome of the base model
ExpectedLine(j) ==
  LET n == Len(mws)
  IN  IF j <= n
        THEN LogLine(mws[j], call.method, "start")
        ELSE IF j = n + 1
          THEN BaseLine(call.method)
          ELSE LogLine(mws[2 * n + 2 - j], call.method,
                       IF call.err # NilErr THEN "error" ELSE "success")

\* C32: WrapLanguageModel applies the middlewares in the order given, the
\* first outermost: a Generate or Stream call on the wrapped model enters
\* mws[0] first, then mws[1], ..., then the base model, and the results and
\* errors come back in the reverse order; with no middlewares the base model
\* is returned unchanged.
C32_FirstIsOutermost ==
  /\ Len(lmLog) <= 2 * Len(mws) + 1
  /\ \A j \in 1 .. Len(lmLog) : lmLog[j] = ExpectedLine(j)
  /\ call.pc = "returned" => Len(lmLog) = 2 * Len(mws) + 1
  /\ (call.pc # "wrap" /\ Len(mws) = 0) => wrapped = BaseModel

\* a call through two different middlewares has come back with an error
C32_Witness ==
  /\ call.pc = "returned"
  /\ Len(mws) = 2
  /\ mws[1] # mws[2]
  /\ call.err # NilErr

(***************************************************************************)
(* InMemoryRegistry (package registry): the language and the embedding     *)
(* models of one registry, used by three goroutines at once.  Two of them  *)
(* register, one looks up.  A call's position pc: "idle", "called" (before *)
(* the Lock or RLock), "locked" (a Register holds the lock), "rlocked" (a  *)
(* lookup has read the map and holds the read lock), "returned".           *)
(***************************************************************************)
Writers == {"w1", "w2"}
Readers == {"r1"}

\* the registrations and lookups of the model: two names of one kind and
\* one of them in a second kind
Keys == {<<"language", "a">>, <<"language", "b">>, <<"embedding", "a">>}

\* model values: the nil interface value and two models
NilModel == "nil"
RegModels == {"m1", "m2"}

NoCallYet ==
  [pc |-> "idle", kind |-> "", name |-> "", model |-> NilModel,
   got |-> [model |-> NilModel, ok |-> FALSE], allowed |-> {},
   ret |-> [model |-> NilModel, err |-> NilErr]]

\* NewInMemoryRegistry: empty maps
EmptyMap == [n \in {} |-> NilModel]

\* delete(m, name) and m[name] = model
Delete(m, name) == [n \in (DOMAIN m) \ {name} |-> m[n]]
Put(m, name, model) == [n \in (DOMAIN m) \cup {name} |-> IF n = name THEN model ELSE m[n]]

\* a seeded fault: a nil model leaves the registration as it is
Register_NilIgnored(m, name, model) ==
  IF model = NilModel THEN m ELSE Put(m, name, model)

\* the body of RegisterLanguageModel / RegisterEmbeddingModel on their map
Register(m, name, model) ==
  IF model = NilModel THEN Delete(m, name) ELSE Put(m, name, model)

\* model, ok := m[name]
Index(m, name) ==
  IF name \in DOMAIN m
    THEN [model |-> m[name], ok |-> TRUE]
    ELSE [model |-> NilModel, ok |-> FALSE]

\* the return of LanguageModel / EmbeddingModel after the read
LookupResult(got, name, kind) ==
  IF ~got.ok \/ got.model = NilModel
    THEN [model |-> NilModel, err |-> NoSuchModelError(name, kind)]
    ELSE [model |-> got.model, err |-> NilErr]

InitRegistry ==
  /\ languageModels = EmptyMap
  /\ embeddingModels = EmptyMap
  /\ mu = [writer |-> FALSE, readers |-> 0]
  /\ gor = [g \in Writers \cup Readers |-> NoCallYet]
  /\ latest = [k \in Keys |-> NilModel]
  /\ first = NoFirst
  /\ AgentIdle
  /\ RetryIdle
  /\ StreamIdle
  /\ SSEIdle
  /\ RunIdle
  /\ WrapIdle

\* a goroutine calls RegisterLanguageModel or RegisterEmbeddingModel
RegisterCalled ==
  /\ \E g \in Writers, k \in Keys, m \in RegModels \cup {NilModel} :
       /\ gor[g].pc = "idle"
       /\ gor' = [gor EXCEPT ![g] = [NoCallYet EXCEPT !.pc = "called", !.kind = k[1],
                                                      !.name = k[2], !.model = m]]
  /\ UNCHANGED <<languageModels, embeddingModels, mu, latest>>
  /\ UNCHANGED <<agentVars, first, retryVars, streamVars, sseVars, runVars, wrapVars>>

\* r.mu.Lock(): waits until no goroutine holds the lock in either mode
RegisterLock ==
  /\ \E g \in Writers :
       /\ gor[g].pc = "called"
       /\ ~mu.writer
       /\ mu.readers = 0
       /\ mu' = [mu EXCEPT !.writer = TRUE]
       /\ gor' = [gor EXCEPT ![g].pc = "locked"]
  /\ UNCHANGED <<languageModels, embeddingModels, latest>>
  /\ UNCHANGED <<agentVars, first, retryVars, streamVars, sseVars, runVars, wrapVars>>

\* the body under the lock, the deferred Unlock and the return: this
\* registration is now the most recent completed one of its kind and name,
\* and the lookups of them that are under way may answer with it
RegisterApply ==
  /\ \E g \in Writers :
       /\ gor[g].pc = "locked"
       /\ LET c == gor[g]
          IN  /\ IF c.kind = "language"
                   THEN /\ languageModels' = Register(languageModels, c.name, c.model)
                        /\ UNCHANGED embeddingModels
                   ELSE /\ embeddingModels' = Register(embeddingModels, c.name, c.model)
                        /\ UNCHANGED languageModels
              /\ latest' = [latest EXCEPT ![<<c.kind, c.name>>] = c.model]
              /\ gor' = [h \in DOMAIN gor |->
                           IF h = g
                             THEN NoCallYet
                             ELSE IF /\ h \in Readers
                                     /\ gor[h].pc \in {"called", "rlocked"}
                                     /\ gor[h].kind = c.kind
                                     /\ gor[h].name = c.name
                               THEN [gor[h] EXCEPT !.allowed = @ \cup {c.model}]
                               ELSE gor[h]]
       /\ mu' = [mu EXCEPT !.writer = FALSE]
  /\ UNCHANGED <<agentVars, first, retryVars, streamVars, sseVars, runVars, wrapVars>>

\* a goroutine calls LanguageModel or EmbeddingModel
LookupCalled ==
  /\ \E g \in Readers, k \in Keys :
       /\ gor[g].pc \in {"idle", "returned"}
       /\ gor' = [gor EXCEPT ![g] = [NoCallYet EXCEPT !.pc = "called", !.kind = k[1],
                                                      !.name = k[2],
                                                      !.allowed = {latest[k]}]]
  /\ UNCHANGED <<languageModels, embeddingModels, mu, latest>>
  /\ UNCHANGED <<agentVars, first, retryVars, streamVars, sseVars, runVars, wrapVars>>

\* r.mu.RLock(), which waits while a writer holds the lock, and the read
LookupRead ==
  /\ \E g \in Readers :
       /\ gor[g].pc = "called"
       /\ ~mu.writer
       /\ mu' = [mu EXCEPT !.readers = @ + 1]
       /\ gor' = [gor EXCEPT
                    ![g].pc = "rlocked",
                    ![g].got = Index(IF gor[g].kind = "language"
                                       THEN languageModels ELSE embeddingModels,
                                     gor[g].name)]
  /\ UNCHANGED <<languageModels, embeddingModels, latest>>
  /\ UNCHANGED <<agentVars, first, retryVars, streamVars, sseVars, runVars, wrapVars>>

\* r.mu.RUnlock() and the return
LookupReturn ==
  /\ \E g \in Readers :
       /\ gor[g].pc = "rlocked"
       /\ mu' = [mu EXCEPT !.readers = @ - 1]
       /\ gor' = [gor EXCEPT
                    ![g].pc = "returned",
                    ![g].ret = LookupResult(gor[g].got, gor[g].name, gor[g].kind)]
  /\ UNCHANGED <<languageModels, embeddingModels, latest>>
  /\ UNCHANGED <<agentVars, first, retryVars, streamVars, sseVars, runVars, wrapVars>>

NextRegistry ==
  \/ RegisterCalled
  \/ RegisterLock
  \/ RegisterApply
  \/ LookupCalled
  \/ LookupRead
  \/ LookupReturn

SpecRegistry == InitRegistry /\ [][NextRegistry]_vars

\* what a lookup of the name in the kind answers when the most recent
\* completed registration of them passed the model m (NilModel also for
\* "never registered")
Answer(kind, name, m) ==
  IF m = NilModel
    THEN [model |-> NilModel, err |-> NoSuchModelError(name, kind)]
    ELSE [model |-> m, err |-> NilErr]

\* C33: under any interleaving of concurrent Register and lookup calls, a
\* lookup of name n returns the model of the most recent completed
\* registration of n when that model is not nil, and a NoSuchModelError when
\* n was never registered or its latest registration passed nil;
\* registrations under other names or other kinds never change the result.
\* "Most recent" is taken at a moment of the lookup: the registrations of n
\* that complete while the lookup is under way may or may not be seen.
C33_LookupReturnsLatest ==
  \A g \in Readers :
    gor[g].pc = "returned" =>
      gor[g].ret \in { Answer(gor[g].kind, gor[g].name, m) : m \in gor[g].allowed }

\* a lookup has returned NoSuchModelError for a name that had a model when
\* the lookup began and lost it, by a registration of nil, while the lookup
\* was under way, other names and kinds being registered all the while
C33_Witness ==
  \E g \in Readers :
    /\ gor[g].pc = "returned"
    /\ gor[g].allowed = {"m1", NilModel}
    /\ gor[g].ret.err = NoSuchModelError(gor[g].name, gor[g].kind)
    /\ \E k \in Keys : k # <<gor[g].kind, gor[g].name>> /\ latest[k] = "m2"

(***************************************************************************)
(* The agent loop again: validation, the terminal event, the step counter, *)
(* tool names and the history (specification Spec).                        *)
(***************************************************************************)
\* the run was refused: an InvalidArgumentError and no result
Refused ==
  /\ retResult = << >>
  /\ retErr \in { InvalidArgumentError("Registry", "must not be nil"),
                  InvalidArgumentError("ModelName", "must not be empty") }

\* the run did nothing that can be seen from outside
NothingDone == genLog = << >> /\ execLog = << >> /\ events = << >>

\* the run ended because the steps ran out
RanOutOfSteps == pc = "returned" /\ retErr.type = "*ai.UnsupportedFunctionalityError"
                   /\ \E n \in 0 .. DefaultMaxSteps : retErr = MaxStepsError(n)

\* C34: RunWithEvents with a nil Registry or an empty ModelName returns an
\* InvalidArgumentError before any Generate call, tool execution or event;
\* and a MaxSteps that is zero or negative behaves exactly like MaxSteps = 8:
\* the loop runs with the limit 8, so at most 8 Generate calls are made and
\* the steps run out after exactly 8 completed batches, with the error that
\* names 8.
C34_ValidationAndDefault ==
  /\ ~ConfigValid =>
       /\ NothingDone
       /\ pc = "returned" => Refused
  /\ (ConfigValid /\ cfg.MaxSteps <= 0 /\ pc # "start") =>
       /\ maxSteps = 8
       /\ Len(genLog) <= 8
       /\ RanOutOfSteps =>
            /\ retErr = MaxStepsError(8)
            /\ Len(genLog) = 8
            /\ CompletedBatches = 8

\* a run with MaxSteps = 0 ran out of steps
C34_Witness == cfg.MaxSteps = 0 /\ ConfigValid /\ RanOutOfSteps

\* done and error are the terminal events
IsTerminal(e) == e.Type \in {EventTypeDone, EventTypeError}

TerminalEvents == { i \in 1 .. Len(events) : IsTerminal(events[i]) }

\* C35: every run of RunWithEvents that passes configuration validation
\* emits exactly one terminal event, which is its last event: a done event
\* if and only if a Result is returned, an error event if and only if an
\* error is returned; no message, tool_start or tool_result event follows
\* the terminal event.  (The events are those handed to an emitter: the
\* statement is about runs that were given one.)
C35_OneTerminalEvent ==
  (ConfigValid /\ emit) =>
    /\ pc # "returned" => TerminalEvents = {}
    /\ pc = "returned" =>
         /\ TerminalEvents = {Len(events)}
         /\ events[Len(events)].Type = EventTypeDone <=> Len(retResult) = 1
         /\ events[Len(events)].Type = EventTypeError <=> retErr # NilErr
         /\ Len(retResult) = 1 <=> retErr = NilErr

\* a run has ended with an error after messages and tool events
C35_Witness ==
  /\ emit
  /\ pc = "returned"
  /\ retErr # NilErr
  /\ Len(events) >= 4
  /\ \E i \in 1 .. Len(events) : events[i].Type = EventTypeToolResult
  /\ \E i \in 1 .. Len(events) : events[i].Type = EventTypeMessage

\* the events a step of the run emits carry the number of tool batches that
\* were completed when the step began
NewEventsCarryBatchCount ==
  \A i \in Len(events) + 1 .. Len(events') : events'[i].Step = CompletedBatches

StepsWithinLimit ==
  ConfigValid =>
    /\ Len(genLog) <= EffectiveMaxSteps
    /\ Len(retResult) = 1 => retResult[1].Steps < EffectiveMaxSteps
    /\ \A i, j \in 1 .. Len(events) : i < j => events[i].Step <= events[j].Step
    /\ \A i \in 1 .. Len(events) : events[i].Step <= CompletedBatches

\* C36: in every run Generate is invoked at most effective-MaxSteps times,
\* every successful Result has Steps strictly smaller than the effective
\* MaxSteps, and the Step field of each emitted event equals the number of
\* tool batches completed when it is emitted, so that Step never decreases
\* over the run and rises by one per completed batch.
C36_StepCounts == []StepsWithinLimit /\ [][NewEventsCarryBatchCount]_vars

\* the events of a run carry two different step numbers and the run has
\* made as many Generate calls as the limit allows
C36_Witness ==
  /\ emit
  /\ ConfigValid
  /\ Len(genLog) = EffectiveMaxSteps
  /\ Len(events) >= 2
  /\ events[1].Step = 0
  /\ events[Len(events)].Step = 1

\* C37: for every executed tool call, the tool name written in the
\* tool-result message (the "tool" field) and in the tool_start and
\* tool_result events equals the name the model requested in the ToolCall,
\* which is also the name under which the tool definition was sent to the
\* model (the key of Config.Tools), for every Config.Tools map, one where a
\* Tool's Name field differs from its key included.
C37_RequestedNameWritten ==
  \A j \in 1 .. Len(execLog) :
    /\ execLog[j].Name \in { d.Name : d \in genLog[execLog[j].gen].Tools }
    /\ ExecOk(execLog[j]) =>
         messages[execLog[j].histLen + 1].Content
           \in JsonObjectTexts(execLog[j].Name, execLog[j].result)
    /\ emit =>
         /\ Len(ToolStartEvents) >= j
         /\ ToolStartEvents[j].Tool = execLog[j].Name
         /\ \A i \in 1 .. Len(events) :
              events[i].Type = EventTypeToolResult => events[i].Tool \in DOMAIN cfg.Tools

\* what does hold: the name written is the Name field of the tool found
\* under the requested key
ToolNameFieldWritten ==
  \A j \in 1 .. Len(execLog) :
    /\ execLog[j].Name \in { d.Name : d \in genLog[execLog[j].gen].Tools }
    /\ ExecOk(execLog[j]) =>
         messages[execLog[j].histLen + 1].Content
           \in JsonObjectTexts(cfg.Tools[execLog[j].Name].Name, execLog[j].result)
    /\ emit =>
         /\ Len(ToolStartEvents) >= j
         /\ ToolStartEvents[j].Tool = cfg.Tools[execLog[j].Name].Name

\* the definitions of all the configured tools, each under its key
ConfiguredDefinitions ==
  { ToolDefinition(k, cfg.Tools[k].Description) : k \in DOMAIN cfg.Tools }

HistoryGrowsByAppending ==
  /\ \A g \in 1 .. Len(genLog) :
       /\ IsPrefix(initialMessages, genLog[g].Messages)
       /\ genLog[g].Tools = ConfiguredDefinitions
       /\ g > 1 => IsPrefix(genLog[g - 1].Messages, genLog[g].Messages)
  /\ pc \in {"loop", "tools", "returned"} /\ ConfigValid =>
       /\ IsPrefix(initialMessages, messages)
       /\ genLog # << >> => IsPrefix(genLog[Len(genLog)].Messages, messages)

\* C38: the history only grows by appending: the messages passed to each
\* Generate call have the messages of the previous Generate call as a prefix
\* and the caller's initial messages as a prefix of all of them, each
\* Generate call receives the same full set of configured tool definitions,
\* and the caller's initialMessages are never modified by the run.
C38_HistoryAppendOnly ==
  []HistoryGrowsByAppending /\ [][initialMessages' = initialMessages]_vars

\* a second Generate call got a longer history than the first and the two
\* tool definitions again
C38_Witness ==
  /\ Len(genLog) >= 2
  /\ Len(genLog[2].Messages) >= Len(genLog[1].Messages) + 2
  /\ Cardinality(genLog[2].Tools) = 2
  /\ genLog[1].Messages = initialMessages

(***************************************************************************)
(* The stream after Close (specification SpecStream).                      *)
(***************************************************************************)
\* a Next call made after a Close gave the terminal delta and no error, and
\* made no call of scanner.Scan
NextAfterCloseIsTerminal ==
  \A j \in 1 .. Len(nextLog) :
    nextLog[j].closedBefore =>
      /\ nextLog[j].delta = <<Delta("", << >>, TRUE)>>
      /\ nextLog[j].err = NilErr
      /\ nextLog[j].scans = 0
      /\ nextLog[j].read = << >>

\* once Close was called nothing more is consumed from the body
ClosedBodyUntouched == closes > 0 => (body' = body /\ bodyEnd' = bodyEnd)

\* C39: after Close has been called on a stream, every later Next call
\* returns a Delta with Done = true and no error and never reads from the
\* closed byte source, whatever part of the source was still unread.  (The
\* code answers so with a cancelled context as well: s.done is tested first.)
C39_NextAfterClose == []NextAfterCloseIsTerminal /\ [][ClosedBodyUntouched]_vars

\* Next after a Close that came when a part of the body was read and the
\* rest was still to come
C39_Witness ==
  /\ Len(nextLog) >= 2
  /\ nextLog[Len(nextLog)].closedBefore
  /\ nextLog[Len(nextLog)].ctx = NilErr
  /\ ~nextLog[1].closedBefore
  /\ ~nextLog[1].doneAfter
  /\ Len(body) = 1
  /\ bodyEnd = "open"

(***************************************************************************)
(* The backoff of the retry middleware at the edge of the Duration range   *)
(* (specification SpecRetry; a Duration has DurationBits bits here).       *)
(***************************************************************************)
\* the sleeps made so far were all for a positive time
SleepsPositive ==
  \A i \in 1 .. Len(rwLog) : rwLog[i].kind = "sleep" => rwLog[i].d > 0

\* C40: for every InitialBackoff > 0, every MaxBackoff and every MaxAttempts,
\* the backoff computed by repeated nextBackoff doubling stays strictly
\* positive: doubling the duration never wraps to zero or to a negative value
\* that would make later sleeps return at once.
C40_BackoffStaysPositive ==
  opts.InitialBackoff > 0 => (backoff > 0 /\ SleepsPositive)

\* what does hold: a positive backoff whose double fits into a Duration is
\* followed by a positive one
PositiveWhileInRange ==
  (backoff > 0 /\ 2 * backoff < 2 ^ (DurationBits - 1)) =>
     nextBackoff(backoff, opt.MaxBackoff) > 0

====
